---- MODULE Spec2Model ----
(***************************************************************************)
(* Access-control and integrity core of the Asana clone (app/routers,      *)
(* app/models).  The persisted tables are the state; every HTTP handler is *)
(* an operator from (database, actor, parameters, payload) to              *)
(* (status, detail, database), and an action applies one handler to the    *)
(* current database and records the response.                              *)
(*                                                                         *)
(* A handler that raises HTTPException, or whose commit raises an          *)
(* IntegrityError, leaves the database as it was: get_db closes the        *)
(* session without committing (app/db/session.py).                         *)
(***************************************************************************)
EXTENDS Integers, FiniteSets, Sequences, TLC

VARIABLES db, resp, migrated, inflight

vars == <<db, resp, migrated, inflight>>

(* ----------------------------- bounds ---------------------------------- *)
MaxUsers == 2
MaxWorkspaces == 2
MaxProjects == 2
MaxTasks == 2
MaxComments == 1
MaxAttachments == 1
MaxTeams == 1
MaxSections == 1
MaxTags == 2
MaxFields == 2
MaxOptions == 1
MaxValues == 2
MaxNames == 2
MaxTime == 2
MaxOwned == 1
MaxRequests == 2

(* None / SQL NULL; primary keys start at 1 *)
NULL == 0

Names == 1..MaxNames
UserIds == 1..MaxUsers
WorkspaceIds == 1..MaxWorkspaces
ProjectIds == 1..MaxProjects
TaskIds == 1..MaxTasks
CommentIds == 1..MaxComments
AttachmentIds == 1..MaxAttachments
TeamIds == 1..MaxTeams
SectionIds == 1..MaxSections
TagIds == 1..MaxTags
FieldIds == 1..MaxFields
OptionIds == 1..MaxOptions
ValueIds == 1..MaxValues
Times == 1..MaxTime
OwnedIds == 1..MaxOwned

(* ----------------------------- helpers --------------------------------- *)
Min(S) == CHOOSE x \in S : \A y \in S : x <= y

(* the primary key the store assigns to the next inserted row *)
FreshId(table, ids) ==
  LET free == ids \ DOMAIN table
  IN  IF free = {} THEN {} ELSE {Min(free)}

Insert(table, id, row) == (id :> row) @@ table

Remove(table, ids) == [i \in (DOMAIN table) \ ids |-> table[i]]

(* Session.get / a relationship load on a key that may be NULL or dangling *)
Has(table, id) == id # NULL /\ id \in DOMAIN table

Fail(d, status, detail) == [status |-> status, detail |-> detail, db |-> d]

Pass == [status |-> 0, detail |-> ""]

Deny(status, detail) == [status |-> status, detail |-> detail]

EmptyFn == [i \in {} |-> NULL]

(* one field per table of the schema; a table with an integer primary key  *)
(* is a function from the keys of its rows, an association table a set of  *)
(* key pairs                                                               *)
EmptyDb ==
  [ users |-> {},
    workspaces |-> EmptyFn,
    user_workspaces |-> {},
    teams |-> EmptyFn,
    user_teams |-> {},
    projects |-> EmptyFn,
    sections |-> EmptyFn,
    tasks |-> EmptyFn,
    comments |-> EmptyFn,
    attachments |-> EmptyFn,
    tags |-> EmptyFn,
    task_tags |-> {},
    custom_fields |-> EmptyFn,
    custom_field_options |-> EmptyFn,
    task_custom_field_values |-> EmptyFn ]

(* ------------------------- schema constraints --------------------------- *)
(* Two stores run this code.  migrated = TRUE: the schema of the alembic   *)
(* migration on an engine that enforces foreign keys.  migrated = FALSE:   *)
(* Base.metadata.create_all on SQLite as in tests/test_api.py, where       *)
(* foreign keys are not enforced (no PRAGMA foreign_keys) and the unique   *)
(* constraints that only the migration declares do not exist.  NOT NULL    *)
(* and the CHECK constraint hold in both.  fk is that flag.                *)
FkOk(fk, ref, ids, nullable) ==
  IF ref = NULL THEN nullable ELSE (~fk \/ ref \in ids)

WorkspaceRowOk(fk, d, w) == FkOk(fk, w.owner_id, d.users, FALSE)

UserWorkspaceRowOk(fk, d, m) ==
  /\ FkOk(fk, m[1], d.users, FALSE)
  /\ FkOk(fk, m[2], DOMAIN d.workspaces, FALSE)

TeamRowOk(fk, d, t) == FkOk(fk, t.workspace_id, DOMAIN d.workspaces, FALSE)

UserTeamRowOk(fk, d, m) ==
  /\ FkOk(fk, m[1], d.users, FALSE)
  /\ FkOk(fk, m[2], DOMAIN d.teams, FALSE)

ProjectRowOk(fk, d, p) ==
  /\ FkOk(fk, p.workspace_id, DOMAIN d.workspaces, FALSE)
  /\ FkOk(fk, p.team_id, DOMAIN d.teams, TRUE)
  /\ FkOk(fk, p.owner_id, d.users, TRUE)

SectionRowOk(fk, d, s) == FkOk(fk, s.project_id, DOMAIN d.projects, FALSE)

TaskRowOk(fk, d, t) ==
  /\ FkOk(fk, t.project_id, DOMAIN d.projects, FALSE)
  /\ FkOk(fk, t.section_id, DOMAIN d.sections, TRUE)
  /\ FkOk(fk, t.parent_task_id, DOMAIN d.tasks, TRUE)
  /\ FkOk(fk, t.assignee_id, d.users, TRUE)
  /\ FkOk(fk, t.creator_id, d.users, FALSE)

CommentRowOk(fk, d, c) ==
  /\ FkOk(fk, c.task_id, DOMAIN d.tasks, FALSE)
  /\ FkOk(fk, c.author_id, d.users, FALSE)

(* the table without its CHECK constraint *)
no_check_constraint(a) == TRUE

(* CheckConstraint either_task_or_comment *)
either_task_or_comment(a) ==
  \/ (a.task_id # NULL /\ a.comment_id = NULL)
  \/ (a.task_id = NULL /\ a.comment_id # NULL)

AttachmentRowOk(fk, d, a) ==
  /\ FkOk(fk, a.task_id, DOMAIN d.tasks, TRUE)
  /\ FkOk(fk, a.comment_id, DOMAIN d.comments, TRUE)
  /\ FkOk(fk, a.uploader_id, d.users, TRUE)
  /\ either_task_or_comment(a)

TagRowOk(fk, d, g) == FkOk(fk, g.workspace_id, DOMAIN d.workspaces, FALSE)

(* UniqueConstraint("name", "workspace_id") of the migration *)
TagsUnique(d) ==
  \A i, j \in DOMAIN d.tags :
    (d.tags[i].name = d.tags[j].name
       /\ d.tags[i].workspace_id = d.tags[j].workspace_id) => i = j

TaskTagRowOk(fk, d, m) ==
  /\ FkOk(fk, m[1], DOMAIN d.tasks, FALSE)
  /\ FkOk(fk, m[2], DOMAIN d.tags, FALSE)

CustomFieldRowOk(fk, d, f) == FkOk(fk, f.project_id, DOMAIN d.projects, FALSE)

(* CustomFieldOption.color: String(7), a length the enforcing database    *)
(* checks on insert                                                       *)
ColorLength == 7

CustomFieldOptionRowOk(fk, d, o) ==
  /\ FkOk(fk, o.custom_field_id, DOMAIN d.custom_fields, FALSE)
  /\ fk => Len(o.color) <= ColorLength

TaskCustomFieldValueRowOk(fk, d, v) ==
  /\ FkOk(fk, v.task_id, DOMAIN d.tasks, FALSE)
  /\ FkOk(fk, v.custom_field_id, DOMAIN d.custom_fields, FALSE)

(* UniqueConstraint uq_task_custom_field of the migration *)
uq_task_custom_field(d) ==
  \A i, j \in DOMAIN d.task_custom_field_values :
    (d.task_custom_field_values[i].task_id = d.task_custom_field_values[j].task_id
       /\ d.task_custom_field_values[i].custom_field_id
            = d.task_custom_field_values[j].custom_field_id) => i = j

Constraints(fk, d) ==
  /\ \A i \in DOMAIN d.workspaces : WorkspaceRowOk(fk, d, d.workspaces[i])
  /\ \A m \in d.user_workspaces : UserWorkspaceRowOk(fk, d, m)
  /\ \A i \in DOMAIN d.teams : TeamRowOk(fk, d, d.teams[i])
  /\ \A m \in d.user_teams : UserTeamRowOk(fk, d, m)
  /\ \A i \in DOMAIN d.projects : ProjectRowOk(fk, d, d.projects[i])
  /\ \A i \in DOMAIN d.sections : SectionRowOk(fk, d, d.sections[i])
  /\ \A i \in DOMAIN d.tasks : TaskRowOk(fk, d, d.tasks[i])
  /\ \A i \in DOMAIN d.comments : CommentRowOk(fk, d, d.comments[i])
  /\ \A i \in DOMAIN d.attachments : AttachmentRowOk(fk, d, d.attachments[i])
  /\ \A i \in DOMAIN d.tags : TagRowOk(fk, d, d.tags[i])
  /\ (fk => TagsUnique(d))
  /\ \A m \in d.task_tags : TaskTagRowOk(fk, d, m)
  /\ \A i \in DOMAIN d.custom_fields : CustomFieldRowOk(fk, d, d.custom_fields[i])
  /\ \A i \in DOMAIN d.custom_field_options :
        CustomFieldOptionRowOk(fk, d, d.custom_field_options[i])
  /\ \A i \in DOMAIN d.task_custom_field_values :
        TaskCustomFieldValueRowOk(fk, d, d.task_custom_field_values[i])
  /\ (fk => uq_task_custom_field(d))

(* a get_db that commits the session when the request ends *)
session_close_commits(d, session) == session

(* get_db: the session of a request that raised is closed without a       *)
(* commit; d is the database as last committed, session the database as   *)
(* the session has added to or flushed it.  What was added or flushed is   *)
(* rolled back.                                                            *)
session_close(d, session) == d

(* Session.commit: the flush either satisfies every constraint of the      *)
(* schema, or raises IntegrityError (status 500) and nothing is persisted. *)
commit(fk, d, d1, status) ==
  IF Constraints(fk, d1)
  THEN [status |-> status, detail |-> "", db |-> d1]
  ELSE Fail(session_close(d, d1), 500, "IntegrityError")

(* ------------------- the ORM's unit of work on delete ------------------- *)
NoDelete ==
  [ workspaces |-> {}, teams |-> {}, projects |-> {}, sections |-> {},
    tasks |-> {}, comments |-> {}, attachments |-> {}, tags |-> {},
    custom_fields |-> {}, task_custom_field_values |-> {},
    user_teams |-> {}, task_tags |-> {} ]

(* Task.subtasks, cascade="all,delete-orphan", followed transitively *)
RECURSIVE subtasks(_, _)
subtasks(d, S) ==
  LET more == S \cup {t \in DOMAIN d.tasks : d.tasks[t].parent_task_id \in S}
  IN  IF more = S THEN S ELSE subtasks(d, more)

(* Session.delete of the rows named in del, flushed: a relationship with   *)
(* cascade="all,delete-orphan" deletes the children, a relationship        *)
(* without delete cascade sets the children's foreign key to NULL, and the *)
(* rows of a secondary table are deleted with either end.                  *)
flush_delete(d, del) ==
  LET W  == del.workspaces
      Tm == del.teams \cup {i \in DOMAIN d.teams : d.teams[i].workspace_id \in W}
      P  == del.projects
              \cup {i \in DOMAIN d.projects : d.projects[i].workspace_id \in W}
      Tg == del.tags \cup {i \in DOMAIN d.tags : d.tags[i].workspace_id \in W}
      S  == del.sections
              \cup {i \in DOMAIN d.sections : d.sections[i].project_id \in P}
      F  == del.custom_fields
              \cup {i \in DOMAIN d.custom_fields : d.custom_fields[i].project_id \in P}
      T  == subtasks(d, del.tasks
              \cup {i \in DOMAIN d.tasks : d.tasks[i].project_id \in P})
      C  == del.comments
              \cup {i \in DOMAIN d.comments : d.comments[i].task_id \in T}
      V  == del.task_custom_field_values
              \cup {i \in DOMAIN d.task_custom_field_values :
                      d.task_custom_field_values[i].task_id \in T}
      O  == {i \in DOMAIN d.custom_field_options :
               d.custom_field_options[i].custom_field_id \in F}
      projects1 == Remove(d.projects, P)
      tasks1 == Remove(d.tasks, T)
      attachments1 == Remove(d.attachments, del.attachments)
      values1 == Remove(d.task_custom_field_values, V)
  IN  [ users |-> d.users,
        workspaces |-> Remove(d.workspaces, W),
        user_workspaces |-> {m \in d.user_workspaces : m[2] \notin W},
        teams |-> Remove(d.teams, Tm),
        user_teams |-> {m \in d.user_teams : m[2] \notin Tm} \ del.user_teams,
        projects |->
          [i \in DOMAIN projects1 |->
             IF projects1[i].team_id \in Tm
             THEN [projects1[i] EXCEPT !.team_id = NULL] ELSE projects1[i]],
        sections |-> Remove(d.sections, S),
        tasks |->
          [i \in DOMAIN tasks1 |->
             IF tasks1[i].section_id \in S
             THEN [tasks1[i] EXCEPT !.section_id = NULL] ELSE tasks1[i]],
        comments |-> Remove(d.comments, C),
        attachments |->
          [i \in DOMAIN attachments1 |->
             [attachments1[i] EXCEPT
                !.task_id = IF @ \in T THEN NULL ELSE @,
                !.comment_id = IF @ \in C THEN NULL ELSE @]],
        tags |-> Remove(d.tags, Tg),
        task_tags |->
          {m \in d.task_tags : m[1] \notin T /\ m[2] \notin Tg} \ del.task_tags,
        custom_fields |-> Remove(d.custom_fields, F),
        custom_field_options |-> Remove(d.custom_field_options, O),
        task_custom_field_values |->
          [i \in DOMAIN values1 |->
             IF values1[i].custom_field_id \in F
             THEN [values1[i] EXCEPT !.custom_field_id = NULL] ELSE values1[i]] ]

(* ------------------------------ auth ------------------------------------ *)
register(fk, d, id) ==
  commit(fk, d, [d EXCEPT !.users = @ \cup {id}], 201)

(* ---------------------------- workspaces -------------------------------- *)
(* create_workspace without the UserWorkspace row *)
create_workspace_no_membership(fk, d, current_user, id, name) ==
  commit(fk, d,
         [d EXCEPT !.workspaces =
                     Insert(@, id, [name |-> name, owner_id |-> current_user])],
         201)

create_workspace(fk, d, current_user, id, name) ==
  LET workspace == [name |-> name, owner_id |-> current_user]
  IN  commit(fk, d,
             [d EXCEPT !.workspaces = Insert(@, id, workspace),
                       !.user_workspaces = @ \cup {<<current_user, id>>}],
             201)

read_workspace(d, current_user, workspace_id) ==
  IF ~Has(d.workspaces, workspace_id)
  THEN Fail(d, 404, "Workspace not found")
  ELSE IF <<current_user, workspace_id>> \notin d.user_workspaces
  THEN Fail(d, 403, "Not a member of workspace")
  ELSE Fail(d, 200, "")

(* update_workspace that hands the workspace to the actor *)
update_workspace_new_owner(fk, d, current_user, workspace_id, name) ==
  IF ~Has(d.workspaces, workspace_id)
  THEN Fail(d, 404, "Workspace not found")
  ELSE commit(fk, d,
              [d EXCEPT !.workspaces[workspace_id] =
                 [@ EXCEPT !.owner_id = current_user,
                           !.name = IF name = NULL THEN @ ELSE name]],
              200)

(* update_workspace without the owner check *)
update_workspace_any_actor(fk, d, current_user, workspace_id, name) ==
  IF ~Has(d.workspaces, workspace_id)
  THEN Fail(d, 404, "Workspace not found")
  ELSE commit(fk, d,
              [d EXCEPT !.workspaces[workspace_id].name =
                          IF name = NULL THEN @ ELSE name],
              200)

update_workspace(fk, d, current_user, workspace_id, name) ==
  IF ~Has(d.workspaces, workspace_id)
  THEN Fail(d, 404, "Workspace not found")
  ELSE IF d.workspaces[workspace_id].owner_id # current_user
  THEN Fail(d, 403, "Only owner may update workspace")
  ELSE commit(fk, d,
              [d EXCEPT !.workspaces[workspace_id].name =
                          IF name = NULL THEN @ ELSE name],
              200)

delete_workspace(fk, d, current_user, workspace_id) ==
  IF ~Has(d.workspaces, workspace_id)
  THEN Fail(d, 404, "Workspace not found")
  ELSE IF d.workspaces[workspace_id].owner_id # current_user
  THEN Fail(d, 403, "Only owner may delete workspace")
  ELSE commit(fk, d,
              flush_delete(d, [NoDelete EXCEPT !.workspaces = {workspace_id}]),
              204)

(* ----------------------------- projects --------------------------------- *)
list_projects(d, current_user, workspace_id) ==
  IF <<current_user, workspace_id>> \notin d.user_workspaces
  THEN Fail(d, 403, "Not a member of workspace")
  ELSE Fail(d, 200, "")

(* payload: ProjectCreate (name, workspace_id, team_id) *)
create_project(fk, d, current_user, id, payload) ==
  IF <<current_user, payload.workspace_id>> \notin d.user_workspaces
  THEN Fail(d, 403, "Not a member of workspace")
  ELSE LET project == [name |-> payload.name,
                       workspace_id |-> payload.workspace_id,
                       team_id |-> payload.team_id,
                       owner_id |-> current_user]
       IN  commit(fk, d, [d EXCEPT !.projects = Insert(@, id, project)], 201)

read_project(d, current_user, project_id) ==
  IF ~Has(d.projects, project_id)
  THEN Fail(d, 404, "Project not found")
  ELSE IF <<current_user, d.projects[project_id].workspace_id>>
            \notin d.user_workspaces
  THEN Fail(d, 403, "Not a member of workspace")
  ELSE Fail(d, 200, "")

(* payload: ProjectUpdate (name, team_id); NULL is a field left out *)
update_project(fk, d, current_user, project_id, payload) ==
  IF ~Has(d.projects, project_id)
  THEN Fail(d, 404, "Project not found")
  ELSE IF d.projects[project_id].owner_id # current_user
  THEN Fail(d, 403, "Only owner may update project")
  ELSE commit(fk, d,
              [d EXCEPT !.projects[project_id] =
                 [@ EXCEPT !.name = IF payload.name = NULL THEN @ ELSE payload.name,
                           !.team_id = IF payload.team_id = NULL
                                       THEN @ ELSE payload.team_id]],
              200)

(* delete_project as a DELETE of the project row alone *)
delete_project_row_only(fk, d, current_user, project_id) ==
  IF ~Has(d.projects, project_id)
  THEN Fail(d, 404, "Project not found")
  ELSE IF d.projects[project_id].owner_id # current_user
  THEN Fail(d, 403, "Only owner may delete project")
  ELSE commit(fk, d, [d EXCEPT !.projects = Remove(@, {project_id})], 204)

delete_project(fk, d, current_user, project_id) ==
  IF ~Has(d.projects, project_id)
  THEN Fail(d, 404, "Project not found")
  ELSE IF d.projects[project_id].owner_id # current_user
  THEN Fail(d, 403, "Only owner may delete project")
  ELSE commit(fk, d,
              flush_delete(d, [NoDelete EXCEPT !.projects = {project_id}]),
              204)

(* ------------------------------- tasks ---------------------------------- *)
tasks_assert_workspace_access(d, user, workspace_id) ==
  IF <<user, workspace_id>> \notin d.user_workspaces
  THEN Deny(403, "Not a member of workspace")
  ELSE Pass

(* A query string is a tuple of characters.  int(): surrounding blanks are *)
(* stripped, one sign is allowed, and what is left must be decimal digits  *)
DigitChars == <<"0", "1", "2", "3", "4", "5", "6", "7", "8", "9">>

IsDigit(c) == \E i \in 1..Len(DigitChars) : DigitChars[i] = c

DigitValue(c) == (CHOOSE i \in 1..Len(DigitChars) : DigitChars[i] = c) - 1

RECURSIVE strip(_)
strip(str) ==
  IF str # <<>> /\ Head(str) = " " THEN strip(Tail(str))
  ELSE IF str # <<>> /\ str[Len(str)] = " " THEN strip(SubSeq(str, 1, Len(str) - 1))
  ELSE str

RECURSIVE digits_value(_, _)
digits_value(str, acc) ==
  IF str = <<>> THEN acc
  ELSE digits_value(Tail(str), 10 * acc + DigitValue(Head(str)))

(* int(str): [ok |-> FALSE] stands for ValueError *)
parse_int(str) ==
  LET stripped == strip(str)
      signed == stripped # <<>> /\ Head(stripped) \in {"+", "-"}
      body == IF signed THEN Tail(stripped) ELSE stripped
  IN  IF body = <<>> \/ \E i \in 1..Len(body) : ~IsDigit(body[i])
      THEN [ok |-> FALSE, value |-> 0]
      ELSE [ok |-> TRUE,
            value |-> IF signed /\ Head(stripped) = "-"
                      THEN 0 - digits_value(body, 0) ELSE digits_value(body, 0)]

(* list_tasks: the assignee filter; q.assignee is {} when the parameter is *)
(* absent and {str} when it is given.  The result is the set of assignee   *)
(* ids the filter admits (UserIds and NULL alike when there is no filter)  *)
(* or a rejection.                                                         *)
assignee_filter(current_user, assignee) ==
  IF assignee = {} \/ assignee = {<<>>}
  THEN [ok |-> TRUE, any |-> TRUE, id |-> NULL]
  ELSE LET str == CHOOSE x \in assignee : TRUE
           parsed == parse_int(str)
       IN  IF str = <<"m", "e">>
           THEN [ok |-> TRUE, any |-> FALSE, id |-> current_user]
           ELSE IF ~parsed.ok
           THEN [ok |-> FALSE, any |-> FALSE, id |-> NULL]
           ELSE [ok |-> TRUE, any |-> FALSE, id |-> parsed.value]

(* list_tasks without the Project.workspace_id filter *)
base_filters_any_workspace(d, assignee, q, t) ==
  /\ Has(d.projects, d.tasks[t].project_id)
  /\ q.project_id # NULL => d.tasks[t].project_id = q.project_id
  /\ assignee.any \/ d.tasks[t].assignee_id = assignee.id
  /\ q.completed = "true" => d.tasks[t].completed_at # NULL
  /\ q.completed = "false" => d.tasks[t].completed_at = NULL
  /\ q.completed_since # NULL =>
       (d.tasks[t].completed_at # NULL /\ d.tasks[t].completed_at >= q.completed_since)

(* list_tasks: Task joined to Project, where all of base_filters hold;   *)
(* assignee is the resolved assignee filter                               *)
base_filters(d, assignee, q, t) ==
  /\ Has(d.projects, d.tasks[t].project_id)
  /\ d.projects[d.tasks[t].project_id].workspace_id = q.workspace_id
  /\ q.project_id # NULL => d.tasks[t].project_id = q.project_id
  /\ assignee.any \/ d.tasks[t].assignee_id = assignee.id
  /\ q.completed = "true" => d.tasks[t].completed_at # NULL
  /\ q.completed = "false" => d.tasks[t].completed_at = NULL
  /\ q.completed_since # NULL =>
       (d.tasks[t].completed_at # NULL /\ d.tasks[t].completed_at >= q.completed_since)

(* the rows of the filtered query *)
filtered_tasks(d, current_user, q) ==
  LET assignee == assignee_filter(current_user, q.assignee)
  IN  {t \in DOMAIN d.tasks : base_filters(d, assignee, q, t)}

(* order_by(Task.created_at.desc()): the orders in which the database may  *)
(* return the rows; rows of equal created_at come in any order             *)
row_orders(d, rows) ==
  {o \in [1..Cardinality(rows) -> rows] :
     /\ \A i, j \in DOMAIN o : i # j => o[i] # o[j]
     /\ \A i, j \in DOMAIN o :
          i < j => d.tasks[o[i]].created_at >= d.tasks[o[j]].created_at}

(* .offset(offset).limit(limit) *)
page_of(order, offset, limit) ==
  [i \in 1..(IF Len(order) - offset < limit
             THEN (IF Len(order) > offset THEN Len(order) - offset ELSE 0)
             ELSE limit) |-> order[offset + i]]

(* q: workspace_id, project_id, assignee, completed, completed_since,      *)
(* limit, offset; order: the row order the database returns for this       *)
(* request, one of row_orders.  The response carries pagination.total and  *)
(* the ids of data.                                                        *)
list_tasks(d, current_user, q, order) ==
  LET access == tasks_assert_workspace_access(d, current_user, q.workspace_id)
      none == [total |-> 0, data |-> <<>>]
  IN  IF access # Pass
      THEN [status |-> access.status, detail |-> access.detail, db |-> d,
            body |-> none]
      ELSE IF ~assignee_filter(current_user, q.assignee).ok
      THEN [status |-> 400, detail |-> "Invalid assignee filter", db |-> d,
            body |-> none]
      ELSE [status |-> 200, detail |-> "", db |-> d,
            body |-> [total |-> Cardinality(filtered_tasks(d, current_user, q)),
                      data |-> page_of(order, q.offset, q.limit)]]

(* payload: TaskCreate (project_id, section_id, parent_task_id,            *)
(* assignee_id, completed in "none", "true", "false"); now is the clock    *)
create_task(fk, d, current_user, id, payload, now) ==
  IF ~Has(d.projects, payload.project_id)
  THEN Fail(d, 404, "Project not found")
  ELSE LET access == tasks_assert_workspace_access(
                       d, current_user, d.projects[payload.project_id].workspace_id)
           task == [project_id |-> payload.project_id,
                    section_id |-> payload.section_id,
                    parent_task_id |-> payload.parent_task_id,
                    assignee_id |-> payload.assignee_id,
                    creator_id |-> current_user,
                    completed_at |-> IF payload.completed = "true" THEN now ELSE NULL,
                    created_at |-> now]
       IN  IF access # Pass
           THEN Fail(d, access.status, access.detail)
           ELSE commit(fk, d, [d EXCEPT !.tasks = Insert(@, id, task)], 201)

(* the checks shared by read_task, update_task and delete_task *)
resolve_task_access(d, current_user, task_id) ==
  IF ~Has(d.tasks, task_id)
  THEN Deny(404, "Task not found")
  ELSE IF ~Has(d.projects, d.tasks[task_id].project_id)
  THEN Deny(404, "Project not found")
  ELSE tasks_assert_workspace_access(
         d, current_user, d.projects[d.tasks[task_id].project_id].workspace_id)

read_task(d, current_user, task_id) ==
  LET access == resolve_task_access(d, current_user, task_id)
  IN  IF access # Pass THEN Fail(d, access.status, access.detail)
      ELSE Fail(d, 200, "")

(* Task.completed *)
completed(task) == task.completed_at # NULL

(* TaskRead of the stored task, as _serialize_task and read_task return it *)
serialize_task(d, task_id) ==
  [id |-> task_id,
   project_id |-> d.tasks[task_id].project_id,
   assignee_id |-> d.tasks[task_id].assignee_id,
   completed |-> completed(d.tasks[task_id]),
   completed_at |-> d.tasks[task_id].completed_at,
   created_at |-> d.tasks[task_id].created_at]

(* update_task with "if completed_flag:" for "is not None" *)
completed_at_if_truthy(completed_at, completed_flag, now) ==
  IF completed_flag = "true" THEN now ELSE completed_at

(* update_task with a left-out completed read as false *)
completed_at_default_false(completed_at, completed_flag, now) ==
  IF completed_flag = "true" THEN now ELSE NULL

(* update_task: completed_at after the completed flag of the payload *)
completed_at_update(completed_at, completed_flag, now) ==
  IF completed_flag = "none" THEN completed_at
  ELSE IF completed_flag = "true" THEN now ELSE NULL

(* payload: TaskUpdate (section_id, assignee_id, completed); NULL and      *)
(* "none" are fields left out                                              *)
update_task(fk, d, current_user, task_id, payload, now) ==
  LET access == resolve_task_access(d, current_user, task_id)
  IN  IF access # Pass THEN Fail(d, access.status, access.detail)
      ELSE commit(fk, d,
             [d EXCEPT !.tasks[task_id] =
                [@ EXCEPT
                   !.section_id = IF payload.section_id = NULL
                                  THEN @ ELSE payload.section_id,
                   !.assignee_id = IF payload.assignee_id = NULL
                                   THEN @ ELSE payload.assignee_id,
                   !.completed_at =
                      completed_at_update(@, payload.completed, now)]],
             200)

delete_task(fk, d, current_user, task_id) ==
  LET access == resolve_task_access(d, current_user, task_id)
  IN  IF access # Pass THEN Fail(d, access.status, access.detail)
      ELSE commit(fk, d,
                  flush_delete(d, [NoDelete EXCEPT !.tasks = {task_id}]), 204)

(* ------------------------------ comments -------------------------------- *)
assert_comment_access(d, user, task) ==
  IF ~Has(d.projects, task.project_id)
  THEN Deny(404, "Project not found")
  ELSE IF <<user, d.projects[task.project_id].workspace_id>>
            \notin d.user_workspaces
  THEN Deny(403, "Not a member of workspace")
  ELSE Pass

list_task_comments(d, current_user, task_id) ==
  IF ~Has(d.tasks, task_id)
  THEN Fail(d, 404, "Task not found")
  ELSE LET access == assert_comment_access(d, current_user, d.tasks[task_id])
       IN  IF access # Pass THEN Fail(d, access.status, access.detail)
           ELSE Fail(d, 200, "")

create_task_comment(fk, d, current_user, id, task_id, content) ==
  IF ~Has(d.tasks, task_id)
  THEN Fail(d, 404, "Task not found")
  ELSE LET access == assert_comment_access(d, current_user, d.tasks[task_id])
           comment == [content |-> content, task_id |-> task_id,
                       author_id |-> current_user]
       IN  IF access # Pass THEN Fail(d, access.status, access.detail)
           ELSE commit(fk, d, [d EXCEPT !.comments = Insert(@, id, comment)], 201)

(* the checks shared by update_comment and delete_comment *)
comment_owner_access(d, current_user, comment_id, forbidden) ==
  IF ~Has(d.comments, comment_id)
  THEN Deny(404, "Comment not found")
  ELSE IF d.comments[comment_id].author_id # current_user
  THEN Deny(403, forbidden)
  ELSE IF ~Has(d.tasks, d.comments[comment_id].task_id)
  THEN Deny(404, "Task not found")
  ELSE assert_comment_access(d, current_user,
                             d.tasks[d.comments[comment_id].task_id])

update_comment(fk, d, current_user, comment_id, content) ==
  LET access == comment_owner_access(d, current_user, comment_id,
                                     "Cannot edit this comment")
  IN  IF access # Pass THEN Fail(d, access.status, access.detail)
      ELSE commit(fk, d,
                  [d EXCEPT !.comments[comment_id].content =
                              IF content = NULL THEN @ ELSE content],
                  200)

delete_comment(fk, d, current_user, comment_id) ==
  LET access == comment_owner_access(d, current_user, comment_id,
                                     "Cannot delete this comment")
  IN  IF access # Pass THEN Fail(d, access.status, access.detail)
      ELSE commit(fk, d,
                  flush_delete(d, [NoDelete EXCEPT !.comments = {comment_id}]),
                  204)

(* ----------------------------- attachments ------------------------------ *)
attachments_ensure_task_access(d, user, task) ==
  IF ~Has(d.projects, task.project_id)
  THEN Deny(404, "Project not found")
  ELSE IF <<user, d.projects[task.project_id].workspace_id>>
            \notin d.user_workspaces
  THEN Deny(403, "Not a member of workspace")
  ELSE Pass

list_attachments(d, current_user, task_id) ==
  IF ~Has(d.tasks, task_id)
  THEN Fail(d, 404, "Task not found")
  ELSE LET access == attachments_ensure_task_access(d, current_user, d.tasks[task_id])
       IN  IF access # Pass THEN Fail(d, access.status, access.detail)
           ELSE Fail(d, 200, "")

(* comment_id: AttachmentCreate.comment_id, NULL when left out *)
create_attachment(fk, d, current_user, id, task_id, comment_id) ==
  IF ~Has(d.tasks, task_id)
  THEN Fail(d, 404, "Task not found")
  ELSE LET access == attachments_ensure_task_access(d, current_user, d.tasks[task_id])
           attachment == [task_id |-> IF comment_id = NULL THEN task_id ELSE NULL,
                          comment_id |-> comment_id,
                          uploader_id |-> current_user]
       IN  IF access # Pass THEN Fail(d, access.status, access.detail)
           ELSE commit(fk, d,
                       [d EXCEPT !.attachments = Insert(@, id, attachment)], 201)

(* attachment.task, else attachment.comment.task; NULL when neither loads *)
attachment_task(d, attachment) ==
  IF Has(d.tasks, attachment.task_id) THEN attachment.task_id
  ELSE IF Has(d.comments, attachment.comment_id)
  THEN d.comments[attachment.comment_id].task_id
  ELSE NULL

delete_attachment(fk, d, current_user, attachment_id) ==
  IF ~Has(d.attachments, attachment_id)
  THEN Fail(d, 404, "Attachment not found")
  ELSE LET task_id == attachment_task(d, d.attachments[attachment_id])
       IN  IF task_id = NULL
           THEN Fail(d, 400, "Attachment is not linked to a task or comment")
           ELSE IF ~Has(d.tasks, task_id)
           THEN Fail(d, 500, "AttributeError")
           ELSE LET access == attachments_ensure_task_access(
                                d, current_user, d.tasks[task_id])
                IN  IF access # Pass THEN Fail(d, access.status, access.detail)
                    ELSE commit(fk, d,
                           flush_delete(d, [NoDelete EXCEPT
                                              !.attachments = {attachment_id}]),
                           204)

(* -------------------------------- tags ---------------------------------- *)
tags_ensure_workspace_membership(d, workspace_id, user_id) ==
  IF <<user_id, workspace_id>> \notin d.user_workspaces
  THEN Deny(403, "Not a member of workspace")
  ELSE Pass

(* Session.add of a row of an association table: an INSERT, which the      *)
(* primary key refuses when the pair is already there                      *)
session_add(rows, row) ==
  [rows |-> rows \cup {row}, conflict |-> row \in rows]

(* Session.merge of a row of an association table: the row is loaded by    *)
(* primary key and inserted only when it is missing                        *)
session_merge(rows, row) ==
  [rows |-> rows \cup {row}, conflict |-> FALSE]

list_tags(d, current_user, workspace_id) ==
  LET access == tags_ensure_workspace_membership(d, workspace_id, current_user)
  IN  IF access # Pass THEN Fail(d, access.status, access.detail)
      ELSE Fail(d, 200, "")

(* payload: TagCreate (name, workspace_id) *)
create_tag(fk, d, current_user, id, payload) ==
  LET access == tags_ensure_workspace_membership(d, payload.workspace_id, current_user)
      tag == [name |-> payload.name, workspace_id |-> payload.workspace_id]
  IN  IF access # Pass THEN Fail(d, access.status, access.detail)
      ELSE commit(fk, d, [d EXCEPT !.tags = Insert(@, id, tag)], 201)

update_tag(fk, d, current_user, tag_id, name) ==
  IF ~Has(d.tags, tag_id)
  THEN Fail(d, 404, "Tag not found")
  ELSE LET access == tags_ensure_workspace_membership(
                       d, d.tags[tag_id].workspace_id, current_user)
       IN  IF access # Pass THEN Fail(d, access.status, access.detail)
           ELSE commit(fk, d,
                       [d EXCEPT !.tags[tag_id].name =
                                   IF name = NULL THEN @ ELSE name],
                       200)

delete_tag(fk, d, current_user, tag_id) ==
  IF ~Has(d.tags, tag_id)
  THEN Fail(d, 404, "Tag not found")
  ELSE LET access == tags_ensure_workspace_membership(
                       d, d.tags[tag_id].workspace_id, current_user)
       IN  IF access # Pass THEN Fail(d, access.status, access.detail)
           ELSE commit(fk, d,
                       flush_delete(d, [NoDelete EXCEPT !.tags = {tag_id}]), 204)

(* assign_tag_to_task without the comparison *)
no_workspace_comparison(d, task, tag) == FALSE

(* the comparison of assign_tag_to_task: TRUE when it raises *)
tag_workspace_mismatch(d, task, tag) ==
  d.projects[task.project_id].workspace_id # tag.workspace_id

assign_tag_to_task(fk, d, current_user, task_id, tag_id) ==
  IF ~Has(d.tasks, task_id)
  THEN Fail(d, 404, "Task not found")
  ELSE IF ~Has(d.tags, tag_id)
  THEN Fail(d, 404, "Tag not found")
  ELSE LET task == d.tasks[task_id]
           tag == d.tags[tag_id]
           access == tags_ensure_workspace_membership(
                       d, tag.workspace_id, current_user)
           merged == session_merge(d.task_tags, <<task_id, tag_id>>)
       IN  IF access # Pass THEN Fail(d, access.status, access.detail)
           ELSE IF ~Has(d.projects, task.project_id)
           THEN Fail(d, 500, "AttributeError")
           ELSE IF tag_workspace_mismatch(d, task, tag)
           THEN Fail(d, 400, "Tag and task must belong to same workspace")
           ELSE IF merged.conflict THEN Fail(d, 500, "IntegrityError")
           ELSE commit(fk, d, [d EXCEPT !.task_tags = merged.rows], 204)

unassign_tag_from_task(fk, d, current_user, task_id, tag_id) ==
  IF ~Has(d.tasks, task_id)
  THEN Fail(d, 404, "Task not found")
  ELSE IF ~Has(d.tags, tag_id)
  THEN Fail(d, 404, "Tag not found")
  ELSE LET access == tags_ensure_workspace_membership(
                       d, d.tags[tag_id].workspace_id, current_user)
       IN  IF access # Pass THEN Fail(d, access.status, access.detail)
           ELSE IF <<task_id, tag_id>> \notin d.task_tags
           THEN Fail(d, 404, "Tag not assigned to task")
           ELSE commit(fk, d,
                       flush_delete(d, [NoDelete EXCEPT
                                          !.task_tags = {<<task_id, tag_id>>}]),
                       204)

(* -------------------------------- teams --------------------------------- *)
teams_ensure_workspace_membership(d, workspace_id, user_id) ==
  IF <<user_id, workspace_id>> \notin d.user_workspaces
  THEN Deny(403, "Not a member of workspace")
  ELSE Pass

list_teams(d, current_user, workspace_id) ==
  LET access == teams_ensure_workspace_membership(d, workspace_id, current_user)
  IN  IF access # Pass THEN Fail(d, access.status, access.detail)
      ELSE Fail(d, 200, "")

(* create_team without the UserTeam row *)
create_team_no_membership(fk, d, current_user, id, workspace_id) ==
  LET access == teams_ensure_workspace_membership(d, workspace_id, current_user)
  IN  IF access # Pass THEN Fail(d, access.status, access.detail)
      ELSE commit(fk, d,
                  [d EXCEPT !.teams = Insert(@, id, [workspace_id |-> workspace_id])],
                  201)

(* payload: TeamCreate (workspace_id) *)
create_team(fk, d, current_user, id, workspace_id) ==
  LET access == teams_ensure_workspace_membership(d, workspace_id, current_user)
      team == [workspace_id |-> workspace_id]
      merged == session_merge(d.user_teams, <<current_user, id>>)
  IN  IF access # Pass THEN Fail(d, access.status, access.detail)
      ELSE IF merged.conflict THEN Fail(d, 500, "IntegrityError")
      ELSE commit(fk, d,
                  [d EXCEPT !.teams = Insert(@, id, team),
                            !.user_teams = merged.rows],
                  201)

(* add_team_member without the membership check of the added user *)
add_team_member_any_user(fk, d, current_user, team_id, user_id) ==
  IF ~Has(d.teams, team_id)
  THEN Fail(d, 404, "Team not found")
  ELSE LET w == d.teams[team_id].workspace_id
           actor == teams_ensure_workspace_membership(d, w, current_user)
           merged == session_merge(d.user_teams, <<user_id, team_id>>)
       IN  IF actor # Pass THEN Fail(d, actor.status, actor.detail)
           ELSE IF merged.conflict THEN Fail(d, 500, "IntegrityError")
           ELSE commit(fk, d, [d EXCEPT !.user_teams = merged.rows], 200)

(* user_id: TeamMemberUpdate.user_id *)
add_team_member(fk, d, current_user, team_id, user_id) ==
  IF ~Has(d.teams, team_id)
  THEN Fail(d, 404, "Team not found")
  ELSE LET w == d.teams[team_id].workspace_id
           actor == teams_ensure_workspace_membership(d, w, current_user)
           added == teams_ensure_workspace_membership(d, w, user_id)
           merged == session_merge(d.user_teams, <<user_id, team_id>>)
       IN  IF actor # Pass THEN Fail(d, actor.status, actor.detail)
           ELSE IF added # Pass THEN Fail(d, added.status, added.detail)
           ELSE IF merged.conflict THEN Fail(d, 500, "IntegrityError")
           ELSE commit(fk, d, [d EXCEPT !.user_teams = merged.rows], 200)

(* remove_team_member that treats a missing membership as removed *)
remove_team_member_idempotent(fk, d, current_user, team_id, user_id) ==
  IF ~Has(d.teams, team_id)
  THEN Fail(d, 404, "Team not found")
  ELSE LET access == teams_ensure_workspace_membership(
                       d, d.teams[team_id].workspace_id, current_user)
       IN  IF access # Pass THEN Fail(d, access.status, access.detail)
           ELSE commit(fk, d,
                       flush_delete(d, [NoDelete EXCEPT
                                          !.user_teams = {<<user_id, team_id>>}]),
                       200)

remove_team_member(fk, d, current_user, team_id, user_id) ==
  IF ~Has(d.teams, team_id)
  THEN Fail(d, 404, "Team not found")
  ELSE LET access == teams_ensure_workspace_membership(
                       d, d.teams[team_id].workspace_id, current_user)
       IN  IF access # Pass THEN Fail(d, access.status, access.detail)
           ELSE IF <<user_id, team_id>> \notin d.user_teams
           THEN Fail(d, 404, "Membership not found")
           ELSE commit(fk, d,
                       flush_delete(d, [NoDelete EXCEPT
                                          !.user_teams = {<<user_id, team_id>>}]),
                       200)

(* ----------------------------- custom fields ---------------------------- *)
ensure_project_access(d, project_id, user_id) ==
  IF ~Has(d.projects, project_id)
  THEN Deny(404, "Project not found")
  ELSE IF <<user_id, d.projects[project_id].workspace_id>> \notin d.user_workspaces
  THEN Deny(403, "Not a member of workspace")
  ELSE Pass

custom_fields_ensure_task_access(d, task_id, user_id) ==
  IF ~Has(d.tasks, task_id)
  THEN Deny(404, "Task not found")
  ELSE ensure_project_access(d, d.tasks[task_id].project_id, user_id)

(* CustomField.type: Literal["text", "number", "date", "dropdown", "boolean"] *)
FieldTypes == {"text", "number", "date", "dropdown", "boolean"}

(* the rows of payload.options, keyed by the ids the inserts receive *)
option_rows(ids, field_id, options) ==
  [i \in ids |->
     [custom_field_id |-> field_id,
      value |-> options[Cardinality({j \in ids : j <= i})].value,
      color |-> options[Cardinality({j \in ids : j <= i})].color]]

(* payload: CustomFieldCreate (project_id, type, options of value and     *)
(* color); option_ids: the ids of the option rows, one per element of      *)
(* payload.options.  The field is flushed before the options are added.    *)
create_custom_field(fk, d, current_user, id, option_ids, project_id, payload) ==
  LET access == ensure_project_access(d, project_id, current_user)
      field == [type |-> payload.type, project_id |-> project_id]
      options == option_rows(option_ids, id, payload.options)
      flushed == [d EXCEPT !.custom_fields = Insert(@, id, field)]
  IN  IF access # Pass THEN Fail(d, access.status, access.detail)
      ELSE IF payload.project_id # project_id
      THEN Fail(d, 400, "Project mismatch")
      ELSE IF ~Constraints(fk, flushed)
      THEN Fail(session_close(d, flushed), 500, "IntegrityError")
      ELSE commit(fk, d,
                  [flushed EXCEPT
                     !.custom_field_options =
                        [i \in DOMAIN @ \cup option_ids |->
                           IF i \in option_ids THEN options[i] ELSE @[i]]],
                  201)

delete_custom_field(fk, d, current_user, field_id) ==
  IF ~Has(d.custom_fields, field_id)
  THEN Fail(d, 404, "Custom field not found")
  ELSE LET access == ensure_project_access(
                       d, d.custom_fields[field_id].project_id, current_user)
       IN  IF access # Pass THEN Fail(d, access.status, access.detail)
           ELSE commit(fk, d,
                       flush_delete(d, [NoDelete EXCEPT !.custom_fields = {field_id}]),
                       204)

(* the value slots of TaskCustomFieldValue and CustomFieldValuePayload *)
ValueSlots == {"value_text", "value_number", "value_date", "value_boolean"}

(* set_task_custom_field with every field type read from value_text *)
expected_attr_text_only(type) == "value_text"

expected_attr(type) ==
  CASE type = "text" -> "value_text"
    [] type = "number" -> "value_number"
    [] type = "date" -> "value_date"
    [] type = "dropdown" -> "value_text"
    [] type = "boolean" -> "value_boolean"

(* valid_options of set_task_custom_field *)
valid_options(d, field_id) ==
  {d.custom_field_options[o].value :
     o \in {i \in DOMAIN d.custom_field_options :
              d.custom_field_options[i].custom_field_id = field_id}}

(* set_task_custom_field without the project comparison *)
any_project(field, task) == FALSE

(* the comparison of set_task_custom_field and clear_task_custom_field: *)
(* TRUE when it raises                                                   *)
field_project_mismatch(field, task) == field.project_id # task.project_id

(* the TaskCustomFieldValue rows of (task_id, field_id) *)
stored_values(d, task_id, field_id) ==
  {i \in DOMAIN d.task_custom_field_values :
     /\ d.task_custom_field_values[i].task_id = task_id
     /\ d.task_custom_field_values[i].custom_field_id = field_id}

(* payload: CustomFieldValuePayload; id: the id of the row this inserts    *)
(* when (task_id, field_id) has none                                       *)
set_task_custom_field(fk, d, current_user, id, task_id, field_id, payload) ==
  LET access == custom_fields_ensure_task_access(d, task_id, current_user)
  IN  IF access # Pass THEN Fail(d, access.status, access.detail)
      ELSE IF ~Has(d.custom_fields, field_id)
      THEN Fail(d, 404, "Custom field not found")
      ELSE
        LET task == d.tasks[task_id]
            field == d.custom_fields[field_id]
            existing == stored_values(d, task_id, field_id)
            value_id == IF existing = {} THEN id ELSE Min(existing)
            provided_value == payload[expected_attr(field.type)]
            added == [task_id |-> task_id, custom_field_id |-> field_id,
                      value_text |-> NULL, value_number |-> NULL,
                      value_date |-> NULL, value_boolean |-> NULL]
            pending == IF existing # {} THEN d
                       ELSE [d EXCEPT !.task_custom_field_values =
                                        Insert(@, id, added)]
            value == [task_id |-> task_id,
                      custom_field_id |-> field_id,
                      value_text |-> payload.value_text,
                      value_number |-> payload.value_number,
                      value_date |-> payload.value_date,
                      value_boolean |-> payload.value_boolean]
        IN  IF field_project_mismatch(field, task)
            THEN Fail(d, 400, "Custom field does not belong to task project")
            ELSE IF provided_value = NULL
            THEN Fail(session_close(d, pending), 400,
                      "Value does not match field type")
            ELSE IF field.type = "dropdown"
                    /\ provided_value \notin valid_options(d, field_id)
            THEN Fail(session_close(d, pending), 400,
                      "Dropdown value not recognised")
            ELSE commit(fk, d,
                        [d EXCEPT !.task_custom_field_values =
                           [i \in DOMAIN @ \cup {value_id} |->
                              IF i = value_id THEN value ELSE @[i]]],
                        200)

clear_task_custom_field(fk, d, current_user, task_id, field_id) ==
  LET access == custom_fields_ensure_task_access(d, task_id, current_user)
  IN  IF access # Pass THEN Fail(d, access.status, access.detail)
      ELSE IF ~Has(d.custom_fields, field_id)
      THEN Fail(d, 404, "Custom field not found")
      ELSE IF field_project_mismatch(d.custom_fields[field_id], d.tasks[task_id])
      THEN Fail(d, 400, "Custom field does not belong to task project")
      ELSE IF stored_values(d, task_id, field_id) = {}
      THEN Fail(d, 404, "Value not found")
      ELSE commit(fk, d,
                  flush_delete(d, [NoDelete EXCEPT
                                     !.task_custom_field_values =
                                        {Min(stored_values(d, task_id, field_id))}]),
                  204)

(* ------------------------------ sections -------------------------------- *)
sections_assert_workspace_membership(d, user, project) ==
  IF <<user, project.workspace_id>> \notin d.user_workspaces
  THEN Deny(403, "Not a member of workspace")
  ELSE Pass

(* payload: SectionCreate (project_id) *)
create_section(fk, d, current_user, id, project_id) ==
  IF ~Has(d.projects, project_id)
  THEN Fail(d, 404, "Project not found")
  ELSE LET access == sections_assert_workspace_membership(
                       d, current_user, d.projects[project_id])
       IN  IF access # Pass THEN Fail(d, access.status, access.detail)
           ELSE commit(fk, d,
                       [d EXCEPT !.sections = Insert(@, id, [project_id |-> project_id])],
                       201)

(* the checks of update_section and delete_section *)
section_access(d, current_user, section_id) ==
  IF ~Has(d.sections, section_id)
  THEN Deny(404, "Section not found")
  ELSE IF ~Has(d.projects, d.sections[section_id].project_id)
  THEN Deny(404, "Project not found")
  ELSE sections_assert_workspace_membership(
         d, current_user, d.projects[d.sections[section_id].project_id])

(* Section.tasks: the tasks that name the section *)
section_tasks(d, section_id) ==
  {t \in DOMAIN d.tasks : d.tasks[t].section_id = section_id}

(* delete_section as if Section.tasks cascaded the delete to the tasks *)
delete_section_and_tasks(fk, d, current_user, section_id) ==
  LET access == section_access(d, current_user, section_id)
  IN  IF access # Pass THEN Fail(d, access.status, access.detail)
      ELSE commit(fk, d,
                  flush_delete(d, [NoDelete EXCEPT
                                     !.sections = {section_id},
                                     !.tasks = section_tasks(d, section_id)]),
                  204)

delete_section(fk, d, current_user, section_id) ==
  LET access == section_access(d, current_user, section_id)
  IN  IF access # Pass THEN Fail(d, access.status, access.detail)
      ELSE commit(fk, d,
                  flush_delete(d, [NoDelete EXCEPT !.sections = {section_id}]), 204)

(* set_task_custom_field from db.commit() on, in a request whose SELECT    *)
(* returned the row `seen` (NULL: none, and a row was added to the         *)
(* session) while the database has meanwhile become d.  A row the request  *)
(* loaded is updated where it still exists.                                *)
set_task_custom_field_commit(fk, d, seen, id, task_id, field_id, payload) ==
  LET value == [task_id |-> task_id,
                custom_field_id |-> field_id,
                value_text |-> payload.value_text,
                value_number |-> payload.value_number,
                value_date |-> payload.value_date,
                value_boolean |-> payload.value_boolean]
  IN  IF seen = NULL
      THEN commit(fk, d,
                  [d EXCEPT !.task_custom_field_values = Insert(@, id, value)],
                  200)
      ELSE IF Has(d.task_custom_field_values, seen)
      THEN commit(fk, d,
                  [d EXCEPT !.task_custom_field_values[seen] = value], 200)
      ELSE Fail(d, 500, "StaleDataError")

(* ============================== actions ================================= *)
(* requests whose handler has read the database and not yet committed *)
RequestIds == 1..MaxRequests

NoRequest == [op |-> "none"]

(* One request: the handler's result becomes the database, and the         *)
(* response is recorded.  The acting user is any registered user           *)
(* (get_current_user); ids named by a request range over existing and      *)
(* missing rows.                                                           *)
DoReq(op, r, req) ==
  /\ db' = r.db
  /\ resp' = [op |-> op, status |-> r.status, detail |-> r.detail,
              changed |-> (r.db # db), req |-> req]
  /\ UNCHANGED <<migrated, inflight>>

Do(op, r) == DoReq(op, r, "")

OneName == {Min(Names)}

OrNull(S) == {NULL} \cup S

PlainTask(project_id) ==
  [project_id |-> project_id, section_id |-> NULL, parent_task_id |-> NULL,
   assignee_id |-> NULL, completed |-> "none"]

Register ==
  \E id \in UserIds \ db.users :
    /\ id = Min(UserIds \ db.users)
    /\ Do("register", register(migrated, db, id))

CreateWorkspace(ids, names) ==
  \E u \in db.users, id \in FreshId(db.workspaces, ids), name \in names :
    Do("create_workspace", create_workspace(migrated, db, u, id, name))

UpdateWorkspace ==
  \E u \in db.users, w \in WorkspaceIds, name \in OrNull(Names) :
    Do("update_workspace", update_workspace(migrated, db, u, w, name))

DeleteWorkspace ==
  \E u \in db.users, w \in WorkspaceIds :
    Do("delete_workspace", delete_workspace(migrated, db, u, w))

CreateProject(ids, names, teams) ==
  \E u \in db.users, id \in FreshId(db.projects, ids),
     w \in WorkspaceIds, name \in names, team \in teams :
    Do("create_project",
       create_project(migrated, db, u, id,
                      [name |-> name, workspace_id |-> w, team_id |-> team]))

UpdateProject(teams) ==
  \E u \in db.users, p \in ProjectIds, name \in OrNull(Names), team \in teams :
    Do("update_project",
       update_project(migrated, db, u, p, [name |-> name, team_id |-> team]))

(* Project.sections, Project.tasks, Project.custom_fields *)
project_sections(d, p) == {i \in DOMAIN d.sections : d.sections[i].project_id = p}

project_tasks(d, p) == {i \in DOMAIN d.tasks : d.tasks[i].project_id = p}

project_custom_fields(d, p) ==
  {i \in DOMAIN d.custom_fields : d.custom_fields[i].project_id = p}

DeleteProject ==
  \E u \in db.users, p \in ProjectIds :
    DoReq("delete_project", delete_project(migrated, db, u, p),
          /\ project_sections(db, p) # {}
          /\ project_tasks(db, p) # {}
          /\ project_custom_fields(db, p) # {})

OneTime == {Min(Times)}

OneUser == {Min(UserIds)}

CreatePlainTask(ids) ==
  \E u \in db.users, id \in FreshId(db.tasks, ids), p \in ProjectIds,
     now \in OneTime :
    Do("create_task", create_task(migrated, db, u, id, PlainTask(p), now))

(* TaskCreate and TaskUpdate payloads over the given assignees *)
TaskCreates(projects, assignees) ==
  [project_id : projects, section_id : {NULL}, parent_task_id : {NULL},
   assignee_id : assignees, completed : {"none", "true", "false"}]

TaskUpdates(assignees) ==
  [section_id : {NULL}, assignee_id : assignees,
   completed : {"none", "true", "false"}]

CreateTaskAt(ids, projects, assignees, times) ==
  \E u \in db.users, id \in FreshId(db.tasks, ids),
     payload \in TaskCreates(projects, assignees), now \in times :
    DoReq("create_task", create_task(migrated, db, u, id, payload, now),
          payload.completed)

CreateTask(ids, projects, assignees) ==
  CreateTaskAt(ids, projects, assignees, Times)

UpdateTask(assignees) ==
  \E u \in db.users, t \in TaskIds, payload \in TaskUpdates(assignees),
     now \in Times :
    DoReq("update_task", update_task(migrated, db, u, t, payload, now),
          payload.completed)

DeleteTask ==
  \E u \in db.users, t \in TaskIds :
    Do("delete_task", delete_task(migrated, db, u, t))

(* query strings of the assignee parameter *)
AssigneeStrings ==
  {<<>>, <<"m", "e">>, <<"1">>, <<"2">>, <<"x">>, <<" ", "1">>, <<"-", "1">>}

(* limit: Query(20, ge=1, le=100); offset: Query(0, ge=0) *)
MaxLimit == 2

MaxOffset == 2

(* the query parameters of list_tasks *)
TaskQueries(projects, assignees, flags, since, limits, offsets) ==
  [workspace_id : WorkspaceIds, project_id : projects, assignee : assignees,
   completed : flags, completed_since : since, limit : limits,
   offset : offsets]

AssigneeParams == {{}} \cup {{str} : str \in AssigneeStrings}

ListTasks(queries) ==
  \E u \in db.users, q \in queries :
    \E order \in row_orders(db, filtered_tasks(db, u, q)) :
      DoReq("list_tasks", list_tasks(db, u, q, order),
            list_tasks(db, u, q, order).body.total)

CreateTaskComment(ids, contents) ==
  \E u \in db.users, id \in FreshId(db.comments, ids), t \in TaskIds,
     content \in contents :
    Do("create_task_comment",
       create_task_comment(migrated, db, u, id, t, content))

UpdateComment ==
  \E u \in db.users, c \in CommentIds, content \in OrNull(Names) :
    Do("update_comment", update_comment(migrated, db, u, c, content))

DeleteComment ==
  \E u \in db.users, c \in CommentIds :
    Do("delete_comment", delete_comment(migrated, db, u, c))

CreateAttachment ==
  \E u \in db.users, id \in FreshId(db.attachments, AttachmentIds),
     t \in TaskIds, c \in OrNull(CommentIds) :
    Do("create_attachment", create_attachment(migrated, db, u, id, t, c))

DeleteAttachment ==
  \E u \in db.users, a \in AttachmentIds :
    Do("delete_attachment", delete_attachment(migrated, db, u, a))

CreateTag(ids, names) ==
  \E u \in db.users, id \in FreshId(db.tags, ids), w \in WorkspaceIds,
     name \in names :
    Do("create_tag",
       create_tag(migrated, db, u, id, [name |-> name, workspace_id |-> w]))

UpdateTag(names) ==
  \E u \in db.users, g \in TagIds, name \in OrNull(names) :
    Do("update_tag", update_tag(migrated, db, u, g, name))

DeleteTag ==
  \E u \in db.users, g \in TagIds :
    Do("delete_tag", delete_tag(migrated, db, u, g))

AssignTagToTask ==
  \E u \in db.users, t \in TaskIds, g \in TagIds :
    Do("assign_tag_to_task", assign_tag_to_task(migrated, db, u, t, g))

UnassignTagFromTask ==
  \E u \in db.users, t \in TaskIds, g \in TagIds :
    Do("unassign_tag_from_task", unassign_tag_from_task(migrated, db, u, t, g))

CreateTeam ==
  \E u \in db.users, id \in FreshId(db.teams, TeamIds), w \in WorkspaceIds :
    DoReq("create_team", create_team(migrated, db, u, id, w),
          [team |-> id, user |-> u])

AddTeamMember ==
  \E u \in db.users, tm \in TeamIds, member \in UserIds :
    Do("add_team_member", add_team_member(migrated, db, u, tm, member))

RemoveTeamMember ==
  \E u \in db.users, tm \in TeamIds, member \in UserIds :
    Do("remove_team_member", remove_team_member(migrated, db, u, tm, member))

(* option colors: "#rrggbb" fits String(7), "#rrggbbaa" does not *)
OptionColors == {"#36c5f0", "#36c5f0ff"}

(* payload.options: at most MaxOptions options *)
OptionLists ==
  {<<>>} \cup {<<[value |-> v, color |-> c]>> : v \in OneName, c \in OptionColors}

(* the ids the option rows of one request receive: the lowest free ones *)
FreshIds(table, ids, n) ==
  {S \in SUBSET (ids \ DOMAIN table) :
     /\ Cardinality(S) = n
     /\ \A i \in S, j \in (ids \ DOMAIN table) \ S : i < j}

CreateCustomField(ids, types) ==
  \E u \in db.users, id \in FreshId(db.custom_fields, ids),
     p \in ProjectIds, pp \in ProjectIds, type \in types,
     options \in OptionLists :
    \E option_ids \in FreshIds(db.custom_field_options, OptionIds, Len(options)) :
      Do("create_custom_field",
         create_custom_field(migrated, db, u, id, option_ids, p,
                             [project_id |-> pp, type |-> type,
                              options |-> options]))

DeleteCustomField ==
  \E u \in db.users, f \in FieldIds :
    Do("delete_custom_field", delete_custom_field(migrated, db, u, f))

(* CustomFieldValuePayload: each slot absent (NULL) or a value *)
ValuePayloads ==
  [value_text : OrNull(Names), value_number : OrNull(OneName),
   value_date : OrNull(OneTime), value_boolean : OrNull(OneName)]

SetTaskCustomField(ids) ==
  \E u \in db.users, t \in TaskIds, f \in FieldIds, payload \in ValuePayloads :
    \E id \in IF stored_values(db, t, f) = {}
              THEN FreshId(db.task_custom_field_values, ids) ELSE {NULL} :
      Do("set_task_custom_field",
         set_task_custom_field(migrated, db, u, id, t, f, payload))

(* set_task_custom_field up to db.commit(): the checks and the SELECT of   *)
(* the stored value; a request that passes them is in flight               *)
BeginSetTaskCustomField(payloads) ==
  \E r \in RequestIds, u \in db.users, t \in TaskIds, f \in FieldIds,
     payload \in payloads :
    \E id \in IF stored_values(db, t, f) = {}
              THEN FreshId(db.task_custom_field_values, ValueIds) ELSE {NULL} :
      LET checked == set_task_custom_field(migrated, db, u, id, t, f, payload)
          seen == IF stored_values(db, t, f) = {} THEN NULL
                  ELSE Min(stored_values(db, t, f))
      IN  /\ inflight[r] = NoRequest
          /\ IF checked.status \in {400, 403, 404}
             THEN Do("set_task_custom_field", checked)
             ELSE /\ inflight' = [inflight EXCEPT ![r] =
                                    [op |-> "set_task_custom_field",
                                     task_id |-> t, field_id |-> f,
                                     payload |-> payload, seen |-> seen]]
                  /\ UNCHANGED <<db, resp, migrated>>

(* db.commit() of a request in flight, and its response *)
CommitSetTaskCustomField ==
  \E r \in RequestIds :
    /\ inflight[r] # NoRequest
    /\ \E id \in IF inflight[r].seen = NULL
                 THEN FreshId(db.task_custom_field_values, ValueIds)
                 ELSE {NULL} :
         LET q == inflight[r]
             res == set_task_custom_field_commit(migrated, db, q.seen, id,
                                                 q.task_id, q.field_id, q.payload)
         IN  /\ db' = res.db
             /\ resp' = [op |-> "set_task_custom_field", status |-> res.status,
                         detail |-> res.detail, changed |-> (res.db # db),
                         req |-> "in flight"]
             /\ inflight' = [inflight EXCEPT ![r] = NoRequest]
             /\ UNCHANGED migrated

ClearTaskCustomField ==
  \E u \in db.users, t \in TaskIds, f \in FieldIds :
    Do("clear_task_custom_field",
       clear_task_custom_field(migrated, db, u, t, f))

CreateSection ==
  \E u \in db.users, id \in FreshId(db.sections, SectionIds), p \in ProjectIds :
    Do("create_section", create_section(migrated, db, u, id, p))

DeleteSection ==
  \E u \in db.users, sec \in SectionIds :
    DoReq("delete_section", delete_section(migrated, db, u, sec),
          Cardinality(section_tasks(db, sec)))

(* tasks placed in a section *)
CreateSectionTask(ids) ==
  \E u \in db.users, id \in FreshId(db.tasks, ids), p \in ProjectIds,
     sec \in OrNull(SectionIds) :
    Do("create_task",
       create_task(migrated, db, u, id,
                   [PlainTask(p) EXCEPT !.section_id = sec], Min(Times)))

Init ==
  /\ db = EmptyDb
  /\ resp = [op |-> "none", status |-> 0, detail |-> "", changed |-> FALSE,
             req |-> ""]
  /\ migrated \in BOOLEAN
  /\ inflight = [r \in RequestIds |-> NoRequest]

(* workspaces, projects, tasks, comments and attachments *)
Next ==
  \/ Register
  \/ CreateWorkspace(WorkspaceIds, OneName)
  \/ DeleteWorkspace
  \/ CreateProject(ProjectIds, OneName, {NULL})
  \/ DeleteProject
  \/ CreatePlainTask(TaskIds)
  \/ DeleteTask
  \/ CreateTaskComment(CommentIds, OneName)
  \/ DeleteComment
  \/ CreateAttachment
  \/ DeleteAttachment

Spec == Init /\ [][Next]_vars

(* ownership: update and delete of workspaces, projects and comments *)
NextOwner ==
  \/ Register
  \/ CreateWorkspace(OwnedIds, Names)
  \/ UpdateWorkspace
  \/ DeleteWorkspace
  \/ CreateProject(OwnedIds, Names, {NULL})
  \/ UpdateProject({NULL})
  \/ DeleteProject
  \/ CreatePlainTask(OwnedIds)
  \/ CreateTaskComment(OwnedIds, Names)
  \/ UpdateComment
  \/ DeleteComment

SpecOwner == Init /\ [][NextOwner]_vars

(* tags and teams *)
NextTags ==
  \/ Register
  \/ CreateWorkspace(WorkspaceIds, OneName)
  \/ CreateProject(OwnedIds, OneName, {NULL})
  \/ CreatePlainTask(OwnedIds)
  \/ DeleteTask
  \/ CreateTag(OwnedIds, OneName)
  \/ UpdateTag(OneName)
  \/ DeleteTag
  \/ AssignTagToTask
  \/ UnassignTagFromTask
  \/ CreateTeam
  \/ AddTeamMember
  \/ RemoveTeamMember

SpecTags == Init /\ [][NextTags]_vars

(* custom fields and their values *)
NextFields ==
  \/ Register
  \/ CreateWorkspace(OwnedIds, OneName)
  \/ CreateProject(ProjectIds, OneName, {NULL})
  \/ DeleteProject
  \/ CreatePlainTask(OwnedIds)
  \/ DeleteTask
  \/ CreateCustomField(OwnedIds, FieldTypes)
  \/ DeleteCustomField
  \/ SetTaskCustomField(OwnedIds)
  \/ ClearTaskCustomField

SpecFields == Init /\ [][NextFields]_vars

(* tasks: creation, update and completion *)
NextTasks ==
  \/ Register
  \/ CreateWorkspace(OwnedIds, OneName)
  \/ CreateProject(OwnedIds, OneName, {NULL})
  \/ CreateTask(TaskIds, ProjectIds, OrNull(OneUser))
  \/ UpdateTask(OrNull(OneUser))
  \/ DeleteTask

SpecTasks == Init /\ [][NextTasks]_vars

(* projects with their sections, tasks and custom fields *)
NextSections ==
  \/ Register
  \/ CreateWorkspace(OwnedIds, OneName)
  \/ CreateProject(ProjectIds, OneName, {NULL})
  \/ DeleteProject
  \/ CreateSection
  \/ DeleteSection
  \/ CreateSectionTask(TaskIds)
  \/ CreateCustomField(OwnedIds, {"text"})

SpecSections == Init /\ [][NextSections]_vars

(* tasks of two workspaces and their filtered listing *)
NextList ==
  \/ Register
  \/ CreateWorkspace(WorkspaceIds, OneName)
  \/ CreateProject(ProjectIds, OneName, {NULL})
  \/ CreateTaskAt(TaskIds, ProjectIds, OrNull(OneUser), OneTime)
  \/ ListTasks(TaskQueries({NULL}, AssigneeParams, {"none"}, {NULL},
                            {MaxLimit}, {0}))

SpecList == Init /\ [][NextList]_vars

(* tasks of one project created at equal and at different times, listed   *)
(* page by page                                                            *)
NextPages ==
  \/ Register
  \/ CreateWorkspace(OwnedIds, OneName)
  \/ CreateProject(OwnedIds, OneName, {NULL})
  \/ CreateTaskAt(TaskIds, OwnedIds, {NULL}, Times)
  \/ ListTasks(TaskQueries({NULL}, {{}}, {"none"}, {NULL}, 1..MaxLimit,
                            0..MaxOffset))

SpecPages == Init /\ [][NextPages]_vars

(* requests that add to the session or flush before they can fail *)
NextFailures ==
  \/ Register
  \/ CreateWorkspace(OwnedIds, OneName)
  \/ CreateTeam
  \/ CreateProject(OwnedIds, OneName, {NULL})
  \/ CreatePlainTask(OwnedIds)
  \/ CreateCustomField(OwnedIds, FieldTypes)
  \/ SetTaskCustomField(OwnedIds)

SpecFailures == Init /\ [][NextFailures]_vars

(* set_task_custom_field requests that overlap *)
NextRace ==
  \/ Register
  \/ CreateWorkspace(OwnedIds, OneName)
  \/ CreateProject(OwnedIds, OneName, {NULL})
  \/ CreatePlainTask(OwnedIds)
  \/ CreateCustomField(OwnedIds, {"text"})
  \/ BeginSetTaskCustomField([value_text : OrNull(OneName), value_number : {NULL},
                              value_date : {NULL}, value_boolean : {NULL}])
  \/ CommitSetTaskCustomField

SpecRace == Init /\ [][NextRace]_vars

(* the links of tasks to tags, users to teams and tasks to field values *)
NextLinks ==
  \/ Register
  \/ CreateWorkspace(OwnedIds, OneName)
  \/ CreateProject(OwnedIds, OneName, {NULL})
  \/ CreatePlainTask(OwnedIds)
  \/ CreateTag(OwnedIds, OneName)
  \/ AssignTagToTask
  \/ UnassignTagFromTask
  \/ CreateTeam
  \/ AddTeamMember
  \/ RemoveTeamMember
  \/ CreateCustomField(OwnedIds, {"text"})
  \/ SetTaskCustomField(OwnedIds)
  \/ ClearTaskCustomField

SpecLinks == Init /\ [][NextLinks]_vars

(* teams and their members while workspaces come and go *)
NextTeams ==
  \/ Register
  \/ CreateWorkspace(WorkspaceIds, OneName)
  \/ DeleteWorkspace
  \/ CreateTeam
  \/ AddTeamMember
  \/ RemoveTeamMember

SpecTeams == Init /\ [][NextTeams]_vars

(* tags and their names *)
NextTagNames ==
  \/ Register
  \/ CreateWorkspace(WorkspaceIds, OneName)
  \/ CreateTag(TagIds, Names)
  \/ UpdateTag(Names)
  \/ DeleteTag

SpecTagNames == Init /\ [][NextTagNames]_vars

(* =============================== claims ================================= *)
(* resolveWorkspace of the specification: the ownership chain of a row *)
TaskWorkspace(d, t) == d.projects[d.tasks[t].project_id].workspace_id

CommentWorkspace(d, c) == TaskWorkspace(d, d.comments[c].task_id)

IsMember(d, u, w) == <<u, w>> \in d.user_workspaces

(* a response that is a failure and a database left as it was *)
Rejected(r, d) == r.status >= 400 /\ r.db = d

Succeeded(r) == r.status \in {200, 201, 204}

(* C1 (as claimed): whatever the operation on a project, task, comment or  *)
(* attachment, an actor without a Membership row for the workspace that    *)
(* the target (or the row being created) resolves to is rejected and the   *)
(* database is unchanged.  An attachment created with a comment_id         *)
(* resolves to the workspace of that comment's task.                       *)
C1_NonMemberRejected ==
  \A u \in db.users :
    /\ \A w \in DOMAIN db.workspaces :
         ~IsMember(db, u, w) =>
           /\ Rejected(list_projects(db, u, w), db)
           /\ \A id \in FreshId(db.projects, ProjectIds) :
                Rejected(create_project(migrated, db, u, id,
                           [name |-> Min(Names), workspace_id |-> w,
                            team_id |-> NULL]), db)
    /\ \A p \in DOMAIN db.projects :
         ~IsMember(db, u, db.projects[p].workspace_id) =>
           /\ Rejected(read_project(db, u, p), db)
           /\ Rejected(update_project(migrated, db, u, p,
                         [name |-> Min(Names), team_id |-> NULL]), db)
           /\ Rejected(delete_project(migrated, db, u, p), db)
           /\ \A id \in FreshId(db.tasks, TaskIds), now \in Times :
                Rejected(create_task(migrated, db, u, id, PlainTask(p), now), db)
    /\ \A t \in DOMAIN db.tasks :
         ~IsMember(db, u, TaskWorkspace(db, t)) =>
           /\ Rejected(read_task(db, u, t), db)
           /\ Rejected(delete_task(migrated, db, u, t), db)
           /\ Rejected(list_task_comments(db, u, t), db)
           /\ Rejected(list_attachments(db, u, t), db)
           /\ \A id \in FreshId(db.comments, CommentIds) :
                Rejected(create_task_comment(migrated, db, u, id, t, Min(Names)), db)
           /\ \A id \in FreshId(db.attachments, AttachmentIds) :
                Rejected(create_attachment(migrated, db, u, id, t, NULL), db)
    /\ \A c \in DOMAIN db.comments :
         ~IsMember(db, u, CommentWorkspace(db, c)) =>
           /\ Rejected(update_comment(migrated, db, u, c, Min(Names)), db)
           /\ Rejected(delete_comment(migrated, db, u, c), db)
           /\ \A t \in DOMAIN db.tasks, id \in FreshId(db.attachments, AttachmentIds) :
                Rejected(create_attachment(migrated, db, u, id, t, c), db)
    /\ \A a \in DOMAIN db.attachments :
         LET t == attachment_task(db, db.attachments[a])
         IN  (Has(db.tasks, t) /\ ~IsMember(db, u, TaskWorkspace(db, t))) =>
               Rejected(delete_attachment(migrated, db, u, a), db)

(* C2: in every reachable state every workspace has a Membership row       *)
(* (owner_id, workspace); a workspace never exists without its owner being *)
(* a member.                                                               *)
C2_OwnerIsMember ==
  \A w \in DOMAIN db.workspaces :
    <<db.workspaces[w].owner_id, w>> \in db.user_workspaces

C2_Witness ==
  /\ resp.op = "create_workspace" /\ resp.status = 201 /\ resp.changed
  /\ \E w \in DOMAIN db.workspaces :
       <<db.workspaces[w].owner_id, w>> \in db.user_workspaces

(* C3: update and delete of a workspace, of a project and of a comment by  *)
(* an actor who is not its owner_id (workspace, project) or author_id      *)
(* (comment) answer 403 Forbidden and leave the database unchanged; they   *)
(* succeed only for the owner or author.                                   *)
C3_OwnerOnly ==
  \A u \in db.users :
    /\ \A w \in DOMAIN db.workspaces, name \in OrNull(Names) :
         LET upd == update_workspace(migrated, db, u, w, name)
             del == delete_workspace(migrated, db, u, w)
         IN  /\ (Succeeded(upd) \/ Succeeded(del)) => db.workspaces[w].owner_id = u
             /\ db.workspaces[w].owner_id # u =>
                  /\ upd.status = 403 /\ upd.db = db
                  /\ del.status = 403 /\ del.db = db
    /\ \A p \in DOMAIN db.projects, name \in OrNull(Names) :
         LET upd == update_project(migrated, db, u, p,
                                   [name |-> name, team_id |-> NULL])
             del == delete_project(migrated, db, u, p)
         IN  /\ (Succeeded(upd) \/ Succeeded(del)) => db.projects[p].owner_id = u
             /\ db.projects[p].owner_id # u =>
                  /\ upd.status = 403 /\ upd.db = db
                  /\ del.status = 403 /\ del.db = db
    /\ \A c \in DOMAIN db.comments, content \in OrNull(Names) :
         LET upd == update_comment(migrated, db, u, c, content)
             del == delete_comment(migrated, db, u, c)
         IN  /\ (Succeeded(upd) \/ Succeeded(del)) => db.comments[c].author_id = u
             /\ db.comments[c].author_id # u =>
                  /\ upd.status = 403 /\ upd.db = db
                  /\ del.status = 403 /\ del.db = db

C3_Witness ==
  /\ resp.op = "update_workspace" /\ resp.status = 403
  /\ resp.detail = "Only owner may update workspace" /\ ~resp.changed
  /\ DOMAIN db.projects # {} /\ DOMAIN db.comments # {}

(* C4 (as claimed): delete_attachment succeeds only for the uploader; a    *)
(* member of the attachment's workspace who is not the uploader gets 403   *)
(* and the attachment remains.                                             *)
C4_OnlyUploaderDeletes ==
  \A u \in db.users, a \in DOMAIN db.attachments :
    LET r == delete_attachment(migrated, db, u, a)
        t == attachment_task(db, db.attachments[a])
    IN  /\ Succeeded(r) => db.attachments[a].uploader_id = u
        /\ (db.attachments[a].uploader_id # u /\ Has(db.tasks, t)
              /\ IsMember(db, u, TaskWorkspace(db, t))) =>
             (r.status = 403 /\ a \in DOMAIN r.db.attachments)

(* C10: in every reachable state every persisted attachment has exactly    *)
(* one of task_id and comment_id set, whatever attachments were created    *)
(* and whatever tasks, comments, projects and workspaces were deleted.     *)
C10_ExactlyOneTarget ==
  \A a \in DOMAIN db.attachments :
    (db.attachments[a].task_id # NULL) # (db.attachments[a].comment_id # NULL)

(* a delete of the attachment's task was attempted: the ORM sets           *)
(* attachment.task_id to NULL and the CHECK constraint refuses the flush   *)
C10_Witness ==
  /\ resp.op = "delete_task" /\ resp.status = 500
  /\ \E a \in DOMAIN db.attachments : db.attachments[a].task_id # NULL

(* C5: every task-tag link joins a task and a tag of the same workspace,   *)
(* and assign_tag_to_task with a task and a tag of different workspaces is *)
(* rejected by every caller and leaves the database as it was; the         *)
(* rejection is the 400 of the comparison for every caller who passes the  *)
(* membership check that precedes it (a member of the tag's workspace).    *)
C5_TagLinksSameWorkspace ==
  /\ \A m \in db.task_tags :
       /\ Has(db.tasks, m[1])
       /\ Has(db.tags, m[2])
       /\ TaskWorkspace(db, m[1]) = db.tags[m[2]].workspace_id
  /\ \A u \in db.users, t \in DOMAIN db.tasks, g \in DOMAIN db.tags :
       TaskWorkspace(db, t) # db.tags[g].workspace_id =>
         LET r == assign_tag_to_task(migrated, db, u, t, g)
         IN  /\ Rejected(r, db)
             /\ IsMember(db, u, db.tags[g].workspace_id) => r.status = 400

(* a request to tag a task of another workspace was answered 400 *)
C5_Witness ==
  /\ resp.op = "assign_tag_to_task"
  /\ resp.status = 400
  /\ resp.detail = "Tag and task must belong to same workspace"
  /\ ~resp.changed
  /\ \E t \in DOMAIN db.tasks, g \in DOMAIN db.tags :
       TaskWorkspace(db, t) # db.tags[g].workspace_id

(* C6: an assign_tag_to_task or add_team_member that succeeds, sent again, *)
(* succeeds again and leaves the database of the first: one link, one      *)
(* membership.                                                             *)
C6_AddIsIdempotent ==
  /\ \A u \in db.users, t \in TaskIds, g \in TagIds :
       LET once == assign_tag_to_task(migrated, db, u, t, g)
           twice == assign_tag_to_task(migrated, once.db, u, t, g)
       IN  Succeeded(once) =>
             /\ <<t, g>> \in once.db.task_tags
             /\ Succeeded(twice)
             /\ twice.db = once.db
  /\ \A u \in db.users, tm \in TeamIds, member \in UserIds :
       LET once == add_team_member(migrated, db, u, tm, member)
           twice == add_team_member(migrated, once.db, u, tm, member)
       IN  Succeeded(once) =>
             /\ <<member, tm>> \in once.db.user_teams
             /\ Succeeded(twice)
             /\ twice.db = once.db

(* a link that was already there was added again, with success *)
C6_Witness ==
  /\ resp.op = "assign_tag_to_task"
  /\ resp.status = 204
  /\ ~resp.changed
  /\ db.task_tags # {}

(* the slot that the claims give to each field type *)
MappedSlot(type) ==
  IF type \in {"text", "dropdown"} THEN "value_text"
  ELSE IF type = "number" THEN "value_number"
  ELSE IF type = "date" THEN "value_date"
  ELSE "value_boolean"

PopulatedSlots(v) == {slot \in ValueSlots : v[slot] # NULL}

(* C7 (as claimed): every stored value, each written by a successful       *)
(* set_task_custom_field, has exactly one slot populated, the one mapped   *)
(* from its field's type.                                                  *)
C7_OnlyMappedSlotPopulated ==
  \A i \in DOMAIN db.task_custom_field_values :
    LET v == db.task_custom_field_values[i]
    IN  Has(db.custom_fields, v.custom_field_id) =>
          PopulatedSlots(v) = {MappedSlot(db.custom_fields[v.custom_field_id].type)}

(* the payloads C8 names for a field: the mapped slot absent, or a         *)
(* dropdown's value_text not among the field's option values               *)
BadPayload(d, f, payload) ==
  \/ payload[MappedSlot(d.custom_fields[f].type)] = NULL
  \/ /\ d.custom_fields[f].type = "dropdown"
     /\ \A o \in DOMAIN d.custom_field_options :
          d.custom_field_options[o].custom_field_id = f =>
            d.custom_field_options[o].value # payload.value_text

(* the id a set_task_custom_field request would give a new row *)
NewValueIds(d, t, f) ==
  IF stored_values(d, t, f) = {}
  THEN FreshId(d.task_custom_field_values, ValueIds) ELSE {NULL}

(* C8: set_task_custom_field with such a payload is rejected, whoever      *)
(* sends it, and no value row is created or changed.                       *)
C8_BadValueRejected ==
  \A u \in db.users, t \in DOMAIN db.tasks, f \in DOMAIN db.custom_fields,
     payload \in ValuePayloads :
    BadPayload(db, f, payload) =>
      \A id \in NewValueIds(db, t, f) :
        LET r == set_task_custom_field(migrated, db, u, id, t, f, payload)
        IN  Rejected(r, db)

(* a dropdown value outside the options was refused *)
C8_Witness ==
  /\ resp.op = "set_task_custom_field"
  /\ resp.status = 400
  /\ resp.detail = "Dropdown value not recognised"
  /\ ~resp.changed

(* C9: every stored value joins a task and a field of the same project,    *)
(* and set_task_custom_field and clear_task_custom_field with a field of   *)
(* another project are rejected by every caller and change nothing; the    *)
(* rejection is the 400 of the comparison for every caller who passes the  *)
(* access check on the task that precedes it.                              *)
C9_ValueFieldSameProject ==
  /\ \A i \in DOMAIN db.task_custom_field_values :
       LET v == db.task_custom_field_values[i]
       IN  /\ Has(db.tasks, v.task_id)
           /\ Has(db.custom_fields, v.custom_field_id)
           /\ db.custom_fields[v.custom_field_id].project_id
                = db.tasks[v.task_id].project_id
  /\ \A u \in db.users, t \in DOMAIN db.tasks, f \in DOMAIN db.custom_fields :
       db.custom_fields[f].project_id # db.tasks[t].project_id =>
         LET cleared == clear_task_custom_field(migrated, db, u, t, f)
             allowed == IsMember(db, u, TaskWorkspace(db, t))
         IN  /\ Rejected(cleared, db)
             /\ allowed => cleared.status = 400
             /\ \A payload \in ValuePayloads, id \in NewValueIds(db, t, f) :
                  LET r == set_task_custom_field(migrated, db, u, id, t, f, payload)
                  IN  /\ Rejected(r, db)
                      /\ allowed => r.status = 400

(* a value for a field of another project was refused *)
C9_Witness ==
  /\ resp.op = "set_task_custom_field"
  /\ resp.status = 400
  /\ resp.detail = "Custom field does not belong to task project"
  /\ ~resp.changed

(* C11: a task created with completed=true has a completed_at and one      *)
(* created with completed=false or without completed has none; update_task *)
(* with completed=true sets completed_at and with completed=false clears   *)
(* it; the task returned by create_task, update_task and read_task reports *)
(* completed exactly when completed_at is set.                             *)
C11_CompletedFollowsCompletedAt ==
  /\ \A t \in DOMAIN db.tasks :
       serialize_task(db, t).completed = (serialize_task(db, t).completed_at # NULL)
  /\ \A u \in db.users, now \in Times :
       /\ \A id \in FreshId(db.tasks, TaskIds),
             payload \in TaskCreates(ProjectIds, {NULL}) :
            LET r == create_task(migrated, db, u, id, payload, now)
            IN  Succeeded(r) =>
                  LET body == serialize_task(r.db, id)
                  IN  /\ (payload.completed = "true") = (body.completed_at # NULL)
                      /\ body.completed = (body.completed_at # NULL)
       /\ \A t \in DOMAIN db.tasks, payload \in TaskUpdates({NULL}) :
            LET r == update_task(migrated, db, u, t, payload, now)
            IN  Succeeded(r) =>
                  LET body == serialize_task(r.db, t)
                  IN  /\ payload.completed = "true" => body.completed_at # NULL
                      /\ payload.completed = "false" => body.completed_at = NULL
                      /\ body.completed = (body.completed_at # NULL)

(* a completed task was reopened by update_task with completed=false *)
C11_Witness ==
  /\ resp.op = "update_task" /\ resp.status = 200
  /\ resp.req = "false" /\ resp.changed
  /\ \E t \in DOMAIN db.tasks : ~completed(db.tasks[t])

(* C12: update_task whose payload leaves completed out keeps the task's    *)
(* completed_at, whatever else the payload changes.                        *)
C12_OmittedCompletedKept ==
  \A u \in db.users, t \in DOMAIN db.tasks, now \in Times,
     payload \in TaskUpdates(OrNull(OneUser)) :
    payload.completed = "none" =>
      LET r == update_task(migrated, db, u, t, payload, now)
      IN  /\ r.db.tasks[t].completed_at = db.tasks[t].completed_at
          /\ completed(r.db.tasks[t]) = completed(db.tasks[t])

(* an update without completed changed a completed task, which stayed      *)
(* completed                                                               *)
C12_Witness ==
  /\ resp.op = "update_task" /\ resp.status = 200
  /\ resp.req = "none" /\ resp.changed
  /\ \A t \in DOMAIN db.tasks : completed(db.tasks[t])

C14_DeleteProjectCascades ==
  /\ \A t \in DOMAIN db.tasks : Has(db.projects, db.tasks[t].project_id)
  /\ \A u \in db.users, p \in DOMAIN db.projects :
       LET r == delete_project(migrated, db, u, p)
       IN  Succeeded(r) =>
             /\ db.projects[p].owner_id = u
             /\ ~Has(r.db.projects, p)
             /\ project_sections(r.db, p) = {}
             /\ project_tasks(r.db, p) = {}
             /\ project_custom_fields(r.db, p) = {}
             /\ \A t \in project_tasks(db, p) :
                  /\ ~Has(r.db.tasks, t)
                  /\ \A actor \in db.users :
                       read_task(r.db, actor, t).status = 404

(* a project with a section, a task and a custom field was deleted *)
C14_Witness ==
  /\ resp.op = "delete_project" /\ resp.status = 204 /\ resp.req = TRUE
  /\ resp.changed

(* the tags of workspace w named name, other than tag g *)
SameNameTags(d, w, name, g) ==
  {i \in DOMAIN d.tags \ {g} :
     d.tags[i].workspace_id = w /\ d.tags[i].name = name}

(* C15 (as claimed): no two tags of a workspace share a name, and a        *)
(* create_tag or update_tag by a member that would make a second tag with  *)
(* an existing (name, workspace_id) answers 409 Conflict and leaves the    *)
(* tags as they were.                                                      *)
C15_TagNamesUnique ==
  /\ TagsUnique(db)
  /\ \A u \in db.users, w \in DOMAIN db.workspaces, name \in Names :
       IsMember(db, u, w) =>
         /\ \A id \in FreshId(db.tags, TagIds) :
              SameNameTags(db, w, name, NULL) # {} =>
                LET r == create_tag(migrated, db, u, id,
                                    [name |-> name, workspace_id |-> w])
                IN  r.status = 409 /\ r.db.tags = db.tags
         /\ \A g \in DOMAIN db.tags :
              (db.tags[g].workspace_id = w /\ SameNameTags(db, w, name, g) # {}) =>
                LET r == update_tag(migrated, db, u, g, name)
                IN  r.status = 409 /\ r.db.tags = db.tags

(* the assignee parameters that name a user: absent, "me", a user id *)
UserParams == {{}, {<<"m", "e">>}} \cup {{<<DigitChars[u + 1]>>} : u \in UserIds}

(* the filter predicate of a task listing, as the specification states it *)
FilterMatches(d, u, q, t) ==
  /\ Has(d.projects, d.tasks[t].project_id)
  /\ TaskWorkspace(d, t) = q.workspace_id
  /\ q.project_id = NULL \/ d.tasks[t].project_id = q.project_id
  /\ \/ q.assignee = {}
     \/ q.assignee = {<<"m", "e">>} /\ d.tasks[t].assignee_id = u
     \/ \E a \in UserIds :
          q.assignee = {<<DigitChars[a + 1]>>} /\ d.tasks[t].assignee_id = a
  /\ q.completed = "none" \/ (q.completed = "true") = completed(d.tasks[t])
  /\ \/ q.completed_since = NULL
     \/ completed(d.tasks[t]) /\ d.tasks[t].completed_at >= q.completed_since

(* the listings examined: every combination of filters on one page, and *)
(* every page of the listings filtered by assignee                        *)
ListedQueries ==
  TaskQueries(OrNull(ProjectIds), UserParams, {"none", "true", "false"},
              OrNull(Times), {MaxLimit}, {0})
  \cup TaskQueries({NULL}, UserParams, {"none"}, {NULL},
                   1..MaxLimit, 0..MaxOffset)

(* C16: a successful task listing reports as total the number of tasks    *)
(* that match the filter, whatever limit and offset are; every task of    *)
(* the page matches the filter, and none belongs to another workspace.    *)
C16_ListMatchesFilter ==
  \A u \in db.users :
    \A q \in ListedQueries :
      \A order \in row_orders(db, filtered_tasks(db, u, q)) :
        LET r == list_tasks(db, u, q, order)
            data == r.body.data
        IN  r.status = 200 =>
              /\ r.body.total =
                   Cardinality({t \in DOMAIN db.tasks : FilterMatches(db, u, q, t)})
              /\ \A i \in DOMAIN data :
                   /\ FilterMatches(db, u, q, data[i])
                   /\ TaskWorkspace(db, data[i]) = q.workspace_id

(* a listing that counted one task while another workspace holds a task *)
C16_Witness ==
  /\ resp.op = "list_tasks"
  /\ resp.status = 200
  /\ resp.req = 1
  /\ \E t1, t2 \in DOMAIN db.tasks : TaskWorkspace(db, t1) # TaskWorkspace(db, t2)

(* the pages of one listing: offsets 0, limit, 2*limit, ... past the last *)
(* task; orders[k] is the row order the database returns to request k     *)
PagesOf(d, u, q, orders) ==
  [k \in 0..MaxTasks |->
     list_tasks(d, u, [q EXCEPT !.offset = k * q.limit], orders[k]).body.data]

RECURSIVE PageSizes(_, _)
PageSizes(pages, k) ==
  IF k < 0 THEN 0 ELSE Len(pages[k]) + PageSizes(pages, k - 1)

(* C17: with a fixed filter and page size and no write in between, the    *)
(* pages at offsets 0, limit, 2*limit, ... have sizes that sum to total,  *)
(* and no task id is on two of them, also when tasks share a created_at.  *)
C17_PagesPartition ==
  \A u \in db.users :
    \A q \in TaskQueries({NULL}, {{}}, {"none"}, {NULL}, 1..MaxLimit, {0}) :
      \A orders \in [0..MaxTasks -> row_orders(db, filtered_tasks(db, u, q))] :
        LET first == list_tasks(db, u, q, orders[0])
            pages == PagesOf(db, u, q, orders)
        IN  first.status = 200 =>
              /\ PageSizes(pages, MaxTasks) = first.body.total
              /\ \A j, k \in DOMAIN pages :
                   j # k => \A a \in DOMAIN pages[j], b \in DOMAIN pages[k] :
                              pages[j][a] # pages[k][b]

(* a string of decimal digits *)
Numeric(str) == str # <<>> /\ \A i \in DOMAIN str : IsDigit(str[i])

(* C18: in a task listing the assignee value "me" selects the tasks of    *)
(* the acting user, a numeric string the tasks of that user id, and every *)
(* other supplied value, the empty string included, is a bad request.     *)
C18_AssigneeFilter ==
  \A u \in db.users :
    \A q \in TaskQueries({NULL}, AssigneeParams \ {{}}, {"none"}, {NULL},
                         {MaxLimit}, {0}) :
      \A order \in row_orders(db, filtered_tasks(db, u, q)) :
        LET r == list_tasks(db, u, q, order)
            str == CHOOSE x \in q.assignee : TRUE
            data == r.body.data
        IN  r.status \notin {403, 404} =>
              IF str = <<"m", "e">>
              THEN /\ r.status = 200
                   /\ \A i \in DOMAIN data : db.tasks[data[i]].assignee_id = u
              ELSE IF Numeric(str)
              THEN /\ r.status = 200
                   /\ \A i \in DOMAIN data :
                        db.tasks[data[i]].assignee_id = digits_value(str, 0)
              ELSE r.status = 400

(* C19: a request that is answered with a failure leaves the database as *)
(* it was before the request, also when the handler had added a row to    *)
(* the session or flushed one before it failed.                            *)
C19_FailurePersistsNothing == resp.status >= 400 => ~resp.changed

(* set_task_custom_field rejected for its value after it had added a new  *)
(* value row to the session                                                *)
C19_Witness ==
  /\ resp.op = "set_task_custom_field"
  /\ resp.status = 400
  /\ resp.detail \in {"Value does not match field type",
                      "Dropdown value not recognised"}
  /\ db.task_custom_field_values = EmptyFn

(* Team.memberships as _serialize_team lists them *)
TeamMembers(d, team_id) == {m[1] : m \in {x \in d.user_teams : x[2] = team_id}}

(* C20: a successful create_team persists the team together with the      *)
(* membership of its creator: the team then has exactly one member, the   *)
(* creator, and no state just after a create_team holds the new team      *)
(* without that row.                                                       *)
C20_CreatorIsSoleMember ==
  /\ \A u \in db.users, w \in WorkspaceIds :
       \A id \in FreshId(db.teams, TeamIds) :
         LET r == create_team(migrated, db, u, id, w)
         IN  r.status = 201 =>
               /\ Has(r.db.teams, id)
               /\ TeamMembers(r.db, id) = {u}
  /\ (resp.op = "create_team" /\ resp.status = 201) =>
       /\ Has(db.teams, resp.req.team)
       /\ TeamMembers(db, resp.req.team) = {resp.req.user}

(* a team was just created *)
C20_Witness ==
  /\ resp.op = "create_team"
  /\ resp.status = 201
  /\ Has(db.teams, resp.req.team)

(* C21: at most one value row is stored for a (task, field) pair in every *)
(* state, also when two set_task_custom_field requests for the pair both  *)
(* read that no row exists before either commits.                         *)
C21_ValuePairUnique == uq_task_custom_field(db)

(* a reference that is NULL or names a row of the given ids *)
Refers(ref, ids) == ref = NULL \/ ref \in ids

(* C22: in every state every non-null reference of a persisted row names  *)
(* a row that exists.                                                      *)
C22_NoDanglingReference ==
  /\ \A i \in DOMAIN db.projects :
       /\ db.projects[i].workspace_id \in DOMAIN db.workspaces
       /\ Refers(db.projects[i].team_id, DOMAIN db.teams)
  /\ \A i \in DOMAIN db.sections : db.sections[i].project_id \in DOMAIN db.projects
  /\ \A i \in DOMAIN db.tasks :
       /\ db.tasks[i].project_id \in DOMAIN db.projects
       /\ Refers(db.tasks[i].section_id, DOMAIN db.sections)
       /\ Refers(db.tasks[i].parent_task_id, DOMAIN db.tasks)
       /\ Refers(db.tasks[i].assignee_id, db.users)
  /\ \A i \in DOMAIN db.comments : db.comments[i].task_id \in DOMAIN db.tasks
  /\ \A i \in DOMAIN db.attachments :
       /\ Refers(db.attachments[i].task_id, DOMAIN db.tasks)
       /\ Refers(db.attachments[i].comment_id, DOMAIN db.comments)
  /\ \A i \in DOMAIN db.tags : db.tags[i].workspace_id \in DOMAIN db.workspaces
  /\ \A m \in db.user_workspaces :
       m[1] \in db.users /\ m[2] \in DOMAIN db.workspaces
  /\ \A m \in db.user_teams : m[1] \in db.users /\ m[2] \in DOMAIN db.teams
  /\ \A m \in db.task_tags : m[1] \in DOMAIN db.tasks /\ m[2] \in DOMAIN db.tags
  /\ \A i \in DOMAIN db.task_custom_field_values :
       /\ db.task_custom_field_values[i].task_id \in DOMAIN db.tasks
       /\ db.task_custom_field_values[i].custom_field_id \in DOMAIN db.custom_fields

(* C30: in every state a task with a section lies in the section's        *)
(* project, and a task with a parent lies in the parent's project.        *)
C30_SectionAndParentInProject ==
  \A t \in DOMAIN db.tasks :
    /\ Has(db.sections, db.tasks[t].section_id) =>
         db.sections[db.tasks[t].section_id].project_id = db.tasks[t].project_id
    /\ Has(db.tasks, db.tasks[t].parent_task_id) =>
         db.tasks[db.tasks[t].parent_task_id].project_id = db.tasks[t].project_id

(* the tasks delete_task removes with task t: t and its subtasks,          *)
(* transitively                                                            *)
DeletedWith(d, t) == subtasks(d, {t})

(* C23 (as claimed): delete_task by a member of the task's workspace       *)
(* succeeds on every stored task, and afterwards neither the task, nor a   *)
(* subtask of it, nor a comment, custom field value, tag link or           *)
(* attachment that referred to any of them is stored.                      *)
C23_DeleteTaskCascades ==
  \A u \in db.users, t \in DOMAIN db.tasks :
    (Has(db.projects, db.tasks[t].project_id)
       /\ IsMember(db, u, TaskWorkspace(db, t))) =>
      LET r == delete_task(migrated, db, u, t)
          T == DeletedWith(db, t)
          C == {c \in DOMAIN db.comments : db.comments[c].task_id \in T}
      IN  /\ r.status = 204
          /\ DOMAIN r.db.tasks \cap T = {}
          /\ DOMAIN r.db.comments \cap C = {}
          /\ \A v \in DOMAIN r.db.task_custom_field_values :
               r.db.task_custom_field_values[v].task_id \notin T
          /\ \A m \in r.db.task_tags : m[1] \notin T
          /\ \A a \in DOMAIN db.attachments :
               (db.attachments[a].task_id \in T
                  \/ db.attachments[a].comment_id \in C) =>
                 ~Has(r.db.attachments, a)

(* C24 (as claimed): delete_custom_field by a member of the field's        *)
(* workspace succeeds whether or not a task holds a value of the field,    *)
(* and afterwards no option and no value of the field is stored.           *)
C24_DeleteFieldCascades ==
  \A u \in db.users, f \in DOMAIN db.custom_fields :
    (Has(db.projects, db.custom_fields[f].project_id)
       /\ IsMember(db, u, db.projects[db.custom_fields[f].project_id].workspace_id)) =>
      LET r == delete_custom_field(migrated, db, u, f)
      IN  /\ r.status = 204
          /\ ~Has(r.db.custom_fields, f)
          /\ \A o \in DOMAIN r.db.custom_field_options :
               r.db.custom_field_options[o].custom_field_id # f
          /\ \A v \in DOMAIN r.db.task_custom_field_values :
               r.db.task_custom_field_values[v].custom_field_id # f

(* C25: removing a link that is not stored answers 404 and leaves the      *)
(* database as it was, in each of the three removals: a tag from a task it *)
(* is not assigned to, a user from a team they are not in, and the value   *)
(* of a field of the task's project that the task does not hold; the       *)
(* actor passes the access check of the operation.                         *)
C25_MissingLinkNotFound ==
  \A u \in db.users :
    /\ \A t \in DOMAIN db.tasks, g \in DOMAIN db.tags :
         (IsMember(db, u, db.tags[g].workspace_id)
            /\ <<t, g>> \notin db.task_tags) =>
           LET r == unassign_tag_from_task(migrated, db, u, t, g)
           IN  r.status = 404 /\ r.db = db
    /\ \A tm \in DOMAIN db.teams, member \in UserIds :
         (IsMember(db, u, db.teams[tm].workspace_id)
            /\ <<member, tm>> \notin db.user_teams) =>
           LET r == remove_team_member(migrated, db, u, tm, member)
           IN  r.status = 404 /\ r.db = db
    /\ \A t \in DOMAIN db.tasks, f \in DOMAIN db.custom_fields :
         (Has(db.projects, db.tasks[t].project_id)
            /\ IsMember(db, u, TaskWorkspace(db, t))
            /\ db.custom_fields[f].project_id = db.tasks[t].project_id
            /\ stored_values(db, t, f) = {}) =>
           LET r == clear_task_custom_field(migrated, db, u, t, f)
           IN  r.status = 404 /\ r.db = db

(* a member removed a user from a team the user was not in, while a task   *)
(* without the tag and without a value of the field of its project exists  *)
C25_Witness ==
  /\ resp.op = "remove_team_member" /\ resp.status = 404
  /\ resp.detail = "Membership not found" /\ ~resp.changed
  /\ \E t \in DOMAIN db.tasks, g \in DOMAIN db.tags : <<t, g>> \notin db.task_tags
  /\ \E t \in DOMAIN db.tasks, f \in DOMAIN db.custom_fields :
       /\ db.custom_fields[f].project_id = db.tasks[t].project_id
       /\ stored_values(db, t, f) = {}

(* C26 (as claimed): an actor who is not a member of the workspace of a    *)
(* stored workspace, project, task or tag is answered 403 by every         *)
(* operation that names it by id: read, update and delete, and the         *)
(* assignment and removal of a stored tag on a task of that workspace.     *)
C26_NonMemberForbidden ==
  \A u \in db.users :
    /\ \A w \in DOMAIN db.workspaces :
         ~IsMember(db, u, w) =>
           /\ read_workspace(db, u, w).status = 403
           /\ update_workspace(migrated, db, u, w, Min(Names)).status = 403
           /\ delete_workspace(migrated, db, u, w).status = 403
    /\ \A p \in DOMAIN db.projects :
         ~IsMember(db, u, db.projects[p].workspace_id) =>
           /\ read_project(db, u, p).status = 403
           /\ update_project(migrated, db, u, p,
                             [name |-> Min(Names), team_id |-> NULL]).status = 403
           /\ delete_project(migrated, db, u, p).status = 403
    /\ \A g \in DOMAIN db.tags :
         ~IsMember(db, u, db.tags[g].workspace_id) =>
           /\ update_tag(migrated, db, u, g, Min(Names)).status = 403
           /\ delete_tag(migrated, db, u, g).status = 403
    /\ \A t \in DOMAIN db.tasks :
         (Has(db.projects, db.tasks[t].project_id)
            /\ ~IsMember(db, u, TaskWorkspace(db, t))) =>
           /\ read_task(db, u, t).status = 403
           /\ delete_task(migrated, db, u, t).status = 403
           /\ \A g \in DOMAIN db.tags :
                /\ assign_tag_to_task(migrated, db, u, t, g).status = 403
                /\ unassign_tag_from_task(migrated, db, u, t, g).status = 403

(* C27: in every state each member of a team is a member of the team's     *)
(* workspace; add_team_member answers 403 and stores nothing when the      *)
(* actor or the user to add is not a member of that workspace.             *)
C27_TeamMembersInWorkspace ==
  /\ \A m \in db.user_teams :
       /\ Has(db.teams, m[2])
       /\ IsMember(db, m[1], db.teams[m[2]].workspace_id)
  /\ \A u \in db.users, tm \in DOMAIN db.teams, member \in UserIds :
       (~IsMember(db, u, db.teams[tm].workspace_id)
          \/ ~IsMember(db, member, db.teams[tm].workspace_id)) =>
         LET r == add_team_member(migrated, db, u, tm, member)
         IN  r.status = 403 /\ r.db = db

(* add_team_member was refused on a team that has a member, while a        *)
(* registered user is outside the team's workspace                         *)
C27_Witness ==
  /\ resp.op = "add_team_member" /\ resp.status = 403 /\ ~resp.changed
  /\ \E tm \in DOMAIN db.teams :
       /\ TeamMembers(db, tm) # {}
       /\ \E u \in db.users : ~IsMember(db, u, db.teams[tm].workspace_id)

(* C28 (as claimed): create_attachment with a comment_id stores the        *)
(* attachment only when the comment belongs to the task of the request     *)
(* path; with the comment of another task it fails and stores nothing.     *)
C28_CommentOfPathTask ==
  \A u \in db.users, t \in DOMAIN db.tasks, c \in DOMAIN db.comments,
     id \in FreshId(db.attachments, AttachmentIds) :
    LET r == create_attachment(migrated, db, u, id, t, c)
    IN  /\ Succeeded(r) => db.comments[c].task_id = t
        /\ db.comments[c].task_id # t => Rejected(r, db)

(* Workspace.memberships: the users with a Membership row of workspace w *)
WorkspaceMembers(d, w) == {m[1] : m \in {x \in d.user_workspaces : x[2] = w}}

(* C29: after every step the members of each workspace are exactly its     *)
(* owner, and a workspace that the step keeps has the owner it had.        *)
C29_OwnerIsSoleMember ==
  [][/\ \A w \in DOMAIN db'.workspaces :
          WorkspaceMembers(db', w) = {db'.workspaces[w].owner_id}
     /\ \A w \in DOMAIN db.workspaces \cap DOMAIN db'.workspaces :
          db'.workspaces[w].owner_id = db.workspaces[w].owner_id]_vars

(* the owner renamed a workspace while a second user is registered *)
C29_Witness ==
  /\ resp.op = "update_workspace" /\ resp.status = 200 /\ resp.changed
  /\ Cardinality(db.users) = MaxUsers
  /\ \E w \in DOMAIN db.workspaces :
       WorkspaceMembers(db, w) = {db.workspaces[w].owner_id}

====
